---- MODULE Spec2Model ----
(***************************************************************************)
(* Model of the COVID-19 ETL transform-and-validate pipeline:              *)
(*   transformers/date_transformer.py, location_transformer.py,            *)
(*   missing_value_handler.py, calculator.py, utils.py,                    *)
(*   validators/data_validator.py, and of run_pipeline and SimpleScheduler *)
(*   in orchestrator.py with the signal handler of main.py.                *)
(*                                                                         *)
(* A Record Set (pandas DataFrame) is a record                             *)
(*   [columns : sequence of column names, nrows : number of rows,          *)
(*    dtype : column name -> dtype, data : column name -> sequence of      *)
(*    cells].                                                              *)
(* A cell is a record [t, n, d, s]:                                        *)
(*   t = "null"  NaN / None / NaT                                          *)
(*   t = "num"   the number n/d (d > 0), or +inf / -inf when d = 0         *)
(*   t = "str"   the Python string s                                       *)
(*   t = "ts"    a timestamp of the calendar day n = yyyymmdd              *)
(* Floating point arithmetic is modelled by exact rational arithmetic      *)
(* extended with the two infinities and NaN.                               *)
(***************************************************************************)
EXTENDS Integers, Sequences, FiniteSets, TLC

(***************************************************************************)
(* Bounds of the model.                                                    *)
(***************************************************************************)
MaxRows == 2

MaxOps == 2

(***************************************************************************)
(* Sequences and Python strings.                                           *)
(***************************************************************************)
Range(s) == {s[i] : i \in 1..Len(s)}

\* Python: p in s
Contains(s, p) ==
    \E i \in 1..(Len(s) - Len(p) + 1) : SubSeq(s, i, i + Len(p) - 1) = p

UpperChars == "ABCDEFGHIJKLMNOPQRSTUVWXYZ"

LowerChars == "abcdefghijklmnopqrstuvwxyz"

LowerChar(c) ==
    IF \E i \in 1..Len(UpperChars) : SubSeq(UpperChars, i, i) = c
    THEN LET i == CHOOSE j \in 1..Len(UpperChars) : SubSeq(UpperChars, j, j) = c
         IN  SubSeq(LowerChars, i, i)
    ELSE c

RECURSIVE lower(_)
\* Python: s.lower()
lower(s) ==
    IF Len(s) = 0 THEN ""
    ELSE LowerChar(SubSeq(s, 1, 1)) \o lower(SubSeq(s, 2, Len(s)))

IsSpace(c) == c = " "

RECURSIVE strip(_)
\* Python: s.strip()
strip(s) ==
    IF Len(s) = 0 THEN ""
    ELSE IF IsSpace(SubSeq(s, 1, 1)) THEN strip(SubSeq(s, 2, Len(s)))
    ELSE IF IsSpace(SubSeq(s, Len(s), Len(s))) THEN strip(SubSeq(s, 1, Len(s) - 1))
    ELSE s

(***************************************************************************)
(* Cells.                                                                  *)
(***************************************************************************)
Null == [t |-> "null", n |-> 0, d |-> 1, s |-> ""]

Str(s) == [t |-> "str", n |-> 0, d |-> 1, s |-> s]

Ts(ymd) == [t |-> "ts", n |-> ymd, d |-> 1, s |-> ""]

Abs(x) == IF x < 0 THEN -x ELSE x

RECURSIVE Gcd(_, _)
Gcd(a, b) == IF b = 0 THEN a ELSE Gcd(b, a % b)

\* the number n/d, d >= 0, in lowest terms; n/0 is +inf or -inf; 0/0 is NaN
Num(n, d) ==
    IF d = 0 /\ n = 0 THEN Null
    ELSE LET g == Gcd(Abs(n), d)
         IN  [t |-> "num", n |-> n \div g, d |-> d \div g, s |-> ""]

IntCell(n) == Num(n, 1)

Inf == Num(1, 0)

\* pandas.isna on a scalar
isna(c) == c.t = "null"

IsInf(c) == c.t = "num" /\ c.d = 0

\* a <= b on numbers (the infinities included)
LeqNum(a, b) == a.n * b.d <= b.n * a.d

\* Python float / numpy true division; x / NaN and NaN / x are NaN
Divide(a, b) ==
    IF isna(a) \/ isna(b) THEN Null
    ELSE IF b.n < 0 THEN Num(-(a.n * b.d), a.d * (-b.n))
    ELSE Num(a.n * b.d, a.d * b.n)

\* x * k for a Python int k > 0
Times(a, k) == IF isna(a) THEN Null ELSE Num(a.n * k, a.d)

(***************************************************************************)
(* Record Sets (pandas DataFrames).                                        *)
(***************************************************************************)
HasCol(f, c) == c \in Range(f.columns)

\* DataFrame.__setitem__: df[c] = series; a new column is appended at the end
SetCol(f, c, kind, cells) ==
    LET cols == IF HasCol(f, c) THEN f.columns ELSE Append(f.columns, c)
    IN  [columns |-> cols,
         nrows   |-> f.nrows,
         dtype   |-> [x \in Range(cols) |-> IF x = c THEN kind ELSE f.dtype[x]],
         data    |-> [x \in Range(cols) |-> IF x = c THEN cells ELSE f.data[x]]]

\* Series.isna().sum()
NullCount(cells) == Cardinality({i \in 1..Len(cells) : isna(cells[i])})

ApplyCol_samedtype(f, c, applied) == SetCol(f, c, f.dtype[c], applied)

\* df[c] = df[c].apply(...), applied being the results row by row: an empty
\* Series keeps its dtype, otherwise the results (Python strings and None)
\* are held in an object column
ApplyCol(f, c, applied) ==
    SetCol(f, c, IF f.nrows = 0 THEN f.dtype[c] ELSE "object", applied)

RECURSIVE SelectRows(_, _)
\* the positions of s, in order, that are members of keep
SelectRows(s, keep) ==
    IF Len(s) = 0 THEN <<>>
    ELSE LET rest == SelectRows(SubSeq(s, 1, Len(s) - 1), keep)
         IN  IF Len(s) \in keep THEN Append(rest, s[Len(s)]) ELSE rest

dropna_none(f) == f

dropna_all(f) ==
    LET keep == {i \in 1..f.nrows : \E c \in Range(f.columns) : ~isna(f.data[c][i])}
    IN  [columns |-> f.columns,
         nrows   |-> Cardinality(keep),
         dtype   |-> f.dtype,
         data    |-> [c \in Range(f.columns) |-> SelectRows(f.data[c], keep)]]

\* DataFrame.dropna(): the rows without a missing value, in their order
dropna(f) ==
    LET keep == {i \in 1..f.nrows : \A c \in Range(f.columns) : ~isna(f.data[c][i])}
    IN  [columns |-> f.columns,
         nrows   |-> Cardinality(keep),
         dtype   |-> f.dtype,
         data    |-> [c \in Range(f.columns) |-> SelectRows(f.data[c], keep)]]

drop_first(f, names) ==
    LET hits == SelectSeq(f.columns, LAMBDA c : c \in names)
        cols == SelectSeq(f.columns, LAMBDA c : Len(hits) = 0 \/ c # hits[1])
    IN  [columns |-> cols,
         nrows   |-> f.nrows,
         dtype   |-> [c \in Range(cols) |-> f.dtype[c]],
         data    |-> [c \in Range(cols) |-> f.data[c]]]

\* DataFrame.drop(columns=names)
drop(f, names) ==
    LET cols == SelectSeq(f.columns, LAMBDA c : c \notin names)
    IN  [columns |-> cols,
         nrows   |-> f.nrows,
         dtype   |-> [c \in Range(cols) |-> f.dtype[c]],
         data    |-> [c \in Range(cols) |-> f.data[c]]]

\* Series.fillna(v)
fillna(cells, v) == [i \in 1..Len(cells) |-> IF isna(cells[i]) THEN v ELSE cells[i]]

\* Series.replace(0, np.nan)
ReplaceZero(cells) ==
    [i \in 1..Len(cells) |->
        IF cells[i].t = "num" /\ cells[i].n = 0 /\ cells[i].d # 0 THEN Null ELSE cells[i]]

\* pandas.api.types.is_numeric_dtype
is_numeric_dtype(kind) == kind \in {"int64", "float64"}

\* pandas.api.types.is_datetime64_dtype
is_datetime64_dtype(kind) == kind = "datetime64"

(***************************************************************************)
(* The objects of one stage call.  orig is the DataFrame object the caller *)
(* passed as df, work is the object df.copy() creates, and ref says which  *)
(* of the two the local name transformed_df is bound to.                   *)
(***************************************************************************)
Enter(df) == [orig |-> df, work |-> df, ref |-> "orig"]

Copy_alias(h) == [h EXCEPT !.ref = "orig"]

\* transformed_df = df.copy()
Copy(h) == [h EXCEPT !.work = h.orig, !.ref = "work"]

\* the DataFrame transformed_df is bound to
Cur(h) == IF h.ref = "orig" THEN h.orig ELSE h.work

\* transformed_df[col] = ... : writes into the object transformed_df is bound to
Store(h, f) == IF h.ref = "orig" THEN [h EXCEPT !.orig = f] ELSE [h EXCEPT !.work = f]

\* transformed_df = <new DataFrame>
Rebind(h, f) == [h EXCEPT !.work = f, !.ref = "work"]

\* return transformed_df
ReturnTransformed(h) ==
    [arg |-> h.orig, ret |-> Cur(h), same |-> h.ref = "orig", faulted |-> FALSE]

ReturnOnError_partial(h) ==
    [arg |-> h.orig, ret |-> Cur(h), same |-> h.ref = "orig", faulted |-> TRUE]

\* except Exception: return df
ReturnOnError(h) ==
    [arg |-> h.orig, ret |-> h.orig, same |-> TRUE, faulted |-> TRUE]

(***************************************************************************)
(* utils.py: date parsing and formatting.  dateutil's parser is modelled   *)
(* on the two layouts the data sources use, YYYY-MM-DD and MM/DD/YYYY      *)
(* (read as DD/MM/YYYY when the first field cannot be a month); every      *)
(* other text raises inside the parser.                                    *)
(***************************************************************************)
Digits == "0123456789"

IsDigit(c) == \E i \in 1..Len(Digits) : SubSeq(Digits, i, i) = c

DigitVal(c) == (CHOOSE i \in 1..Len(Digits) : SubSeq(Digits, i, i) = c) - 1

AllDigits(s) == \A i \in 1..Len(s) : IsDigit(SubSeq(s, i, i))

RECURSIVE ToNat(_)
ToNat(s) ==
    IF Len(s) = 0 THEN 0
    ELSE ToNat(SubSeq(s, 1, Len(s) - 1)) * 10 + DigitVal(SubSeq(s, Len(s), Len(s)))

IsLeap(y) == (y % 4 = 0 /\ y % 100 # 0) \/ y % 400 = 0

DaysIn(m, y) ==
    IF m = 2 THEN (IF IsLeap(y) THEN 29 ELSE 28)
    ELSE IF m \in {4, 6, 9, 11} THEN 30 ELSE 31

ValidDate(y, m, d) == y >= 1 /\ m \in 1..12 /\ d \in 1..DaysIn(m, y)

MakeDate(y, m, d) == IF ValidDate(y, m, d) THEN Ts(y * 10000 + m * 100 + d) ELSE Null

\* dateutil.parser.parse(text); Null stands for the ParserError it raises
DateutilParse(text) ==
    IF /\ Len(text) = 10
       /\ SubSeq(text, 5, 5) = "-" /\ SubSeq(text, 8, 8) = "-"
       /\ AllDigits(SubSeq(text, 1, 4) \o SubSeq(text, 6, 7) \o SubSeq(text, 9, 10))
    THEN MakeDate(ToNat(SubSeq(text, 1, 4)), ToNat(SubSeq(text, 6, 7)),
                  ToNat(SubSeq(text, 9, 10)))
    ELSE IF /\ Len(text) = 10
            /\ SubSeq(text, 3, 3) = "/" /\ SubSeq(text, 6, 6) = "/"
            /\ AllDigits(SubSeq(text, 1, 2) \o SubSeq(text, 4, 5) \o SubSeq(text, 7, 10))
    THEN LET a == ToNat(SubSeq(text, 1, 2))
             b == ToNat(SubSeq(text, 4, 5))
             y == ToNat(SubSeq(text, 7, 10))
         IN  IF a > 12 THEN MakeDate(y, b, a) ELSE MakeDate(y, a, b)
    ELSE Null

\* parse_date_string: None for a missing or empty value and for a text the
\* parser rejects; str() of a Timestamp parses back to the same day
parse_date_string(x) ==
    IF isna(x) \/ x = Str("") THEN Null
    ELSE IF x.t = "ts" THEN x
    ELSE DateutilParse(x.s)

Digit(k) == SubSeq(Digits, k + 1, k + 1)

Pad2(k) == Digit((k \div 10) % 10) \o Digit(k % 10)

Pad4(k) == Pad2(k \div 100) \o Pad2(k % 100)

\* standardize_date_format: date_obj.strftime("%Y-%m-%d"), None for None
standardize_date_format(obj) ==
    IF isna(obj) THEN Null
    ELSE Str(Pad4(obj.n \div 10000) \o "-" \o Pad2((obj.n \div 100) % 100)
             \o "-" \o Pad2(obj.n % 100))

\* config.DATE_FIELDS
DATE_FIELDS == <<"date", "report_date", "vaccination_date", "admission_date">>

\* config.LOCATION_FIELDS
LOCATION_FIELDS == <<"region", "location", "state", "county", "hospital_location">>

(***************************************************************************)
(* A stage call takes, besides its arguments, the point at which an        *)
(* unexpected exception is raised inside its try block: fault = 0 is a     *)
(* call without such an exception, fault = 1 an exception while the copy   *)
(* is made, fault = k + 1 an exception while the stage works on its k-th   *)
(* column (or rule).  The result is [arg, ret, same, faulted]: the         *)
(* caller's DataFrame after the call, the DataFrame returned, whether the  *)
(* two are one object, and whether the except branch ran.                  *)
(***************************************************************************)
RECURSIVE DateLoop_strict(_, _, _, _)
DateLoop_strict(h, cols, k, fault) ==
    IF k > Len(cols) THEN ReturnTransformed(h)
    ELSE IF fault = k + 1 THEN ReturnOnError(h)
    ELSE IF \E i \in 1..Cur(h).nrows :
                /\ ~isna(Cur(h).data[cols[k]][i])
                /\ isna(parse_date_string(Cur(h).data[cols[k]][i]))
    THEN ReturnOnError(h)
    ELSE DateLoop_strict(Store(h, ApplyCol(Cur(h), cols[k],
                        [i \in 1..Cur(h).nrows |->
                            standardize_date_format(
                                parse_date_string(Cur(h).data[cols[k]][i]))])),
                  cols, k + 1, fault)

RECURSIVE DateLoop(_, _, _, _)
\* date_transformer.py: for col in existing_date_cols
DateLoop(h, cols, k, fault) ==
    IF k > Len(cols) THEN ReturnTransformed(h)
    ELSE IF fault = k + 1 THEN ReturnOnError(h)
    ELSE DateLoop(Store(h, ApplyCol(Cur(h), cols[k],
                        [i \in 1..Cur(h).nrows |->
                            standardize_date_format(
                                parse_date_string(Cur(h).data[cols[k]][i]))])),
                  cols, k + 1, fault)

standardize_dates_all(df, date_columns, fault) ==
    IF fault = 1 THEN ReturnOnError(Enter(df))
    ELSE DateLoop(Copy(Enter(df)), df.columns, 1, fault)

standardize_dates(df, date_columns, fault) ==
    IF fault = 1 THEN ReturnOnError(Enter(df))
    ELSE LET h == Copy(Enter(df))
             existing_date_cols == SelectSeq(date_columns, LAMBDA c : HasCol(Cur(h), c))
         IN  IF Len(existing_date_cols) = 0 THEN ReturnTransformed(h)
             ELSE DateLoop(h, existing_date_cols, 1, fault)

(***************************************************************************)
(* transformers/location_transformer.py                                    *)
(***************************************************************************)
LOCATION_MAPPING_chained ==
    [k \in {"ny", "nyc"} |-> IF k = "ny" THEN "nyc" ELSE "new york city"]

LOCATION_MAPPING ==
    [k \in {"ny", "nyc", "n.y.", "ca", "fl", "tx", "pa", "mass", "ma", "il", "oh",
            "ga", "nc", "nj", "wash", "wa", "dc", "d.c."} |->
       CASE k = "ny"   -> "new york"
         [] k = "nyc"  -> "new york city"
         [] k = "n.y." -> "new york"
         [] k = "ca"   -> "california"
         [] k = "fl"   -> "florida"
         [] k = "tx"   -> "texas"
         [] k = "pa"   -> "pennsylvania"
         [] k = "mass" -> "massachusetts"
         [] k = "ma"   -> "massachusetts"
         [] k = "il"   -> "illinois"
         [] k = "oh"   -> "ohio"
         [] k = "ga"   -> "georgia"
         [] k = "nc"   -> "north carolina"
         [] k = "nj"   -> "new jersey"
         [] k = "wash" -> "washington"
         [] k = "wa"   -> "washington"
         [] k = "dc"   -> "district of columbia"
         [] k = "d.c." -> "district of columbia"]

\* utils.clean_string on a text value: str(text).strip().lower()
clean_string(text) == lower(strip(text))

clean_location_raw(location) ==
    IF isna(location) THEN Null
    ELSE Str(IF location.s \in DOMAIN LOCATION_MAPPING
             THEN LOCATION_MAPPING[location.s] ELSE clean_string(location.s))

clean_location(location) ==
    IF isna(location) THEN Null
    ELSE LET cleaned == clean_string(location.s)
         IN  Str(IF cleaned \in DOMAIN LOCATION_MAPPING
                 THEN LOCATION_MAPPING[cleaned] ELSE cleaned)

RECURSIVE LocationLoop(_, _, _, _)
\* location_transformer.py: for col in existing_location_cols
LocationLoop(h, cols, k, fault) ==
    IF k > Len(cols) THEN ReturnTransformed(h)
    ELSE IF fault = k + 1 THEN ReturnOnError(h)
    ELSE LocationLoop(Store(h, ApplyCol(Cur(h), cols[k],
                            [i \in 1..Cur(h).nrows |->
                                clean_location(Cur(h).data[cols[k]][i])])),
                      cols, k + 1, fault)

normalize_locations(df, location_columns, fault) ==
    IF fault = 1 THEN ReturnOnError(Enter(df))
    ELSE LET h == Copy(Enter(df))
             existing_location_cols ==
                 SelectSeq(location_columns, LAMBDA c : HasCol(Cur(h), c))
         IN  IF Len(existing_location_cols) = 0 THEN ReturnTransformed(h)
             ELSE LocationLoop(h, existing_location_cols, 1, fault)

(***************************************************************************)
(* transformers/missing_value_handler.py                                   *)
(***************************************************************************)
\* transformed_df.isna().sum()
missing_counts(f) == [c \in Range(f.columns) |-> NullCount(f.data[c])]

RECURSIVE SumOver(_, _)
SumOver(fn, cols) ==
    IF Len(cols) = 0 THEN 0
    ELSE fn[cols[1]] + SumOver(fn, SubSeq(cols, 2, Len(cols)))

\* missing_counts.sum()
total_missing(f) == SumOver(missing_counts(f), f.columns)

FillColumn_unknown(f, column) == SetCol(f, column, "object", fillna(f.data[column], Str("Unknown")))

\* the default strategy on one column that has missing values
FillColumn(f, column) ==
    IF is_numeric_dtype(f.dtype[column])
    THEN SetCol(f, column, f.dtype[column], fillna(f.data[column], IntCell(0)))
    ELSE IF is_datetime64_dtype(f.dtype[column])
    THEN f
    ELSE SetCol(f, column, "object", fillna(f.data[column], Str("Unknown")))

RECURSIVE MissingLoop_first(_, _, _, _, _)
MissingLoop_first(h, cols, counts, k, fault) ==
    IF k > Len(cols) THEN ReturnTransformed(h)
    ELSE IF fault = k + 1 THEN ReturnOnError(h)
    ELSE IF counts[cols[k]] > 0 /\ ~is_datetime64_dtype(Cur(h).dtype[cols[k]])
    THEN ReturnTransformed(Store(h, FillColumn(Cur(h), cols[k])))
    ELSE MissingLoop_first(h, cols, counts, k + 1, fault)

RECURSIVE MissingLoop(_, _, _, _, _)
\* missing_value_handler.py: for column in transformed_df.columns
MissingLoop(h, cols, counts, k, fault) ==
    IF k > Len(cols) THEN ReturnTransformed(h)
    ELSE IF fault = k + 1 THEN ReturnOnError(h)
    ELSE IF counts[cols[k]] > 0
    THEN MissingLoop(Store(h, FillColumn(Cur(h), cols[k])), cols, counts, k + 1, fault)
    ELSE MissingLoop(h, cols, counts, k + 1, fault)

handle_missing_values(df, strategy, fault) ==
    IF fault = 1 THEN ReturnOnError(Enter(df))
    ELSE LET h == Copy(Enter(df))
             counts == missing_counts(Cur(h))
         IN  IF total_missing(Cur(h)) = 0 THEN ReturnTransformed(h)
             ELSE IF strategy = "drop_rows"
             THEN IF fault = 2 THEN ReturnOnError(h)
                  ELSE ReturnTransformed(Rebind(h, dropna(Cur(h))))
             ELSE IF strategy = "drop_columns"
             THEN IF fault = 2 THEN ReturnOnError(h)
                  ELSE ReturnTransformed(Rebind(h, drop(Cur(h),
                           {c \in Range(Cur(h).columns) : counts[c] > 0})))
             ELSE MissingLoop(h, Cur(h).columns, counts, 1, fault)

\* the number of points of handle_missing_values at which an exception can
\* be raised: the copy, then the drop or one per column
MissingSteps(df, strategy) ==
    IF total_missing(df) = 0 THEN 1
    ELSE IF strategy \in {"drop_rows", "drop_columns"} THEN 2
    ELSE 1 + Len(df.columns)

(***************************************************************************)
(* transformers/calculator.py                                              *)
(***************************************************************************)
\* the four rules, in the order of the code: derived column, numerator,
\* denominator
RULES ==
    << [out |-> "positivity_rate", num |-> "positive_tests", den |-> "total_tests"],
       [out |-> "case_fatality_rate", num |-> "deaths", den |-> "confirmed_cases"],
       [out |-> "vaccination_rate", num |-> "total_vaccinations", den |-> "population"],
       [out |-> "hospital_utilization_rate", num |-> "occupied_beds",
        den |-> "total_beds"] >>

RulePresent(f, r) == HasCol(f, r.num) /\ HasCol(f, r.den)

\* Series / Series raises TypeError when, in some row, both operands are
\* present and one of them is a text; a timestamp column cannot be divided
DivRaises(f, r) ==
    LET num == f.data[r.num]
        den == ReplaceZero(f.data[r.den])
    IN  \/ is_datetime64_dtype(f.dtype[r.num])
        \/ is_datetime64_dtype(f.dtype[r.den])
        \/ \E i \in 1..f.nrows :
              /\ ~isna(num[i]) /\ ~isna(den[i])
              /\ (num[i].t # "num" \/ den[i].t # "num")

Ratio_nofill(f, r) ==
    LET num == f.data[r.num]
        den == ReplaceZero(f.data[r.den])
    IN  [i \in 1..f.nrows |-> Times(Divide(num[i], den[i]), 100)]

\* (num / den.replace(0, np.nan)).fillna(0) * 100
Ratio(f, r) ==
    LET num == f.data[r.num]
        den == ReplaceZero(f.data[r.den])
    IN  [i \in 1..f.nrows |->
            Times(fillna(<<Divide(num[i], den[i])>>, IntCell(0))[1], 100)]

RatioKind(f, r) ==
    IF is_numeric_dtype(f.dtype[r.num]) /\ is_numeric_dtype(f.dtype[r.den])
    THEN "float64" ELSE "object"

RECURSIVE CalcLoop_stop(_, _, _)
CalcLoop_stop(h, k, fault) ==
    IF k > Len(RULES) THEN ReturnTransformed(h)
    ELSE IF fault = k + 1 THEN ReturnOnError(h)
    ELSE IF RulePresent(Cur(h), RULES[k])
    THEN IF DivRaises(Cur(h), RULES[k]) THEN ReturnOnError(h)
         ELSE CalcLoop_stop(Store(h, SetCol(Cur(h), RULES[k].out,
                                            RatioKind(Cur(h), RULES[k]),
                                            Ratio(Cur(h), RULES[k]))),
                            k + 1, fault)
    ELSE ReturnTransformed(h)

RECURSIVE CalcLoop(_, _, _)
\* calculator.py: the four guarded blocks, one after the other
CalcLoop(h, k, fault) ==
    IF k > Len(RULES) THEN ReturnTransformed(h)
    ELSE IF fault = k + 1 THEN ReturnOnError(h)
    ELSE IF RulePresent(Cur(h), RULES[k])
    THEN IF DivRaises(Cur(h), RULES[k]) THEN ReturnOnError(h)
         ELSE CalcLoop(Store(h, SetCol(Cur(h), RULES[k].out, RatioKind(Cur(h), RULES[k]),
                                       Ratio(Cur(h), RULES[k]))),
                       k + 1, fault)
    ELSE CalcLoop(h, k + 1, fault)

create_calculated_fields(df, fault) ==
    IF fault = 1 THEN ReturnOnError(Enter(df))
    ELSE CalcLoop(Copy(Enter(df)), 1, fault)

(***************************************************************************)
(* validators/data_validator.py: SimpleValidator.  An operation is given   *)
(* the DataFrame and the list validation_results and yields                *)
(* [results, ret, raised]: the list after the operation, the value         *)
(* returned, and whether an exception left the operation instead.          *)
(***************************************************************************)
RECURSIVE NatStr(_)
\* str() of a non-negative Python int
NatStr(k) == IF k < 10 THEN Digit(k) ELSE NatStr(k \div 10) \o Digit(k % 10)

IntStr(k) == IF k < 0 THEN "-" \o NatStr(-k) ELSE NatStr(k)

RECURSIVE FracStr(_, _, _)
\* the decimal digits of rem/d, at most places of them
FracStr(rem, d, places) ==
    IF rem = 0 \/ places = 0 THEN ""
    ELSE Digit((rem * 10) \div d) \o FracStr((rem * 10) % d, d, places - 1)

\* str() of a Python or numpy float
FloatStr(c) ==
    IF isna(c) THEN "nan"
    ELSE IF IsInf(c) THEN (IF c.n < 0 THEN "-inf" ELSE "inf")
    ELSE LET a == Abs(c.n)
             frac == FracStr(a % c.d, c.d, 16)
         IN  (IF c.n < 0 THEN "-" ELSE "") \o NatStr(a \div c.d) \o "."
                 \o (IF frac = "" THEN "0" ELSE frac)

\* the text an f-string gives a number held as an int or as a float
NumStr(c, kind) == IF kind = "int64" THEN IntStr(c.n) ELSE FloatStr(c)

\* the arguments 0, 100 and float('inf') of the range expectations
ZERO == [v |-> IntCell(0), kind |-> "int64"]

HUNDRED == [v |-> IntCell(100), kind |-> "int64"]

INFINITY == [v |-> Inf, kind |-> "float64"]

_add_result_latest(results, expectation, success, details) ==
    <<[expectation |-> expectation, success |-> success, details |-> details]>>

\* self.validation_results.append({...})
_add_result(results, expectation, success, details) ==
    Append(results, [expectation |-> expectation, success |-> success, details |-> details])

Returns(results, ret) == [results |-> results, ret |-> ret, raised |-> FALSE]

Raises(results) == [results |-> results, ret |-> FALSE, raised |-> TRUE]

expect_column_to_exist(f, results, column) ==
    LET result == HasCol(f, column)
    IN  Returns(_add_result(results, "Column '" \o column \o "' exists", result, ""), result)

expect_column_values_to_not_be_null_unchecked(f, results, column) ==
    LET pre == expect_column_to_exist(f, results, column)
        null_count == IF pre.ret THEN NullCount(f.data[column]) ELSE 1
        result == null_count = 0
    IN  Returns(_add_result(pre.results, "Column '" \o column \o "' has no null values", result,
                            IF ~result THEN NatStr(null_count) \o " null values found" ELSE ""),
                result)

expect_column_values_to_not_be_null(f, results, column) ==
    LET pre == expect_column_to_exist(f, results, column)
    IN  IF ~pre.ret THEN Returns(pre.results, FALSE)
        ELSE LET null_count == NullCount(f.data[column])
                 result == null_count = 0
             IN  Returns(_add_result(pre.results,
                                     "Column '" \o column \o "' has no null values", result,
                                     IF ~result THEN NatStr(null_count) \o " null values found"
                                     ELSE ""),
                         result)

\* Series.dropna()
DropNull(cells) == SelectSeq(cells, LAMBDA c : ~isna(c))

\* Series.min() and Series.max() of a numeric Series without nulls
MinOf(values) == CHOOSE v \in Range(values) : \A w \in Range(values) : LeqNum(v, w)

MaxOf(values) == CHOOSE v \in Range(values) : \A w \in Range(values) : LeqNum(w, v)

BetweenText(column, min_value, max_value) ==
    "Column '" \o column \o "' values between " \o NumStr(min_value.v, min_value.kind)
        \o " and " \o NumStr(max_value.v, max_value.kind)

InRange_exclusive(min_actual, max_actual, min_value, max_value) ==
    /\ LeqNum(min_value.v, min_actual) /\ min_value.v # min_actual
    /\ LeqNum(max_actual, max_value.v) /\ max_value.v # max_actual

\* (min_actual >= min_value) and (max_actual <= max_value)
InRange(min_actual, max_actual, min_value, max_value) ==
    LeqNum(min_value.v, min_actual) /\ LeqNum(max_actual, max_value.v)

\* a text or a timestamp compared with a number raises TypeError
expect_column_values_to_be_between(f, results, column, min_value, max_value) ==
    LET pre == expect_column_to_exist(f, results, column)
    IN  IF ~pre.ret THEN Returns(pre.results, FALSE)
        ELSE LET values == DropNull(f.data[column])
             IN  IF Len(values) = 0
                 THEN Returns(_add_result(pre.results,
                                          BetweenText(column, min_value, max_value), FALSE,
                                          "Column has no non-null values"),
                              FALSE)
                 ELSE IF ~is_numeric_dtype(f.dtype[column]) THEN Raises(pre.results)
                 ELSE LET min_actual == MinOf(values)
                          max_actual == MaxOf(values)
                          result == InRange(min_actual, max_actual, min_value, max_value)
                      IN  Returns(_add_result(pre.results,
                                      BetweenText(column, min_value, max_value), result,
                                      IF ~result
                                      THEN "Range is " \o NumStr(min_actual, f.dtype[column])
                                               \o " to " \o NumStr(max_actual, f.dtype[column])
                                      ELSE ""),
                                  result)

\* Series.duplicated().sum(): missing values count as equal to each other
DuplicateCount(cells) == Len(cells) - Cardinality(Range(cells))

expect_column_values_to_be_unique(f, results, column) ==
    LET pre == expect_column_to_exist(f, results, column)
    IN  IF ~pre.ret THEN Returns(pre.results, FALSE)
        ELSE LET duplicate_count == DuplicateCount(f.data[column])
                 result == duplicate_count = 0
             IN  Returns(_add_result(pre.results,
                                     "Column '" \o column \o "' values are unique", result,
                                     IF ~result
                                     THEN NatStr(duplicate_count) \o " duplicates found"
                                     ELSE ""),
                         result)

validate_any(results) == Returns(results, \E i \in 1..Len(results) : results[i].success)

\* SimpleValidator.validate: success_count == total
validate(results) ==
    LET total == Len(results)
        success_count == Cardinality({i \in 1..Len(results) : results[i].success})
    IN  Returns(results, success_count = total)

\* pandas.api.types.is_string_dtype of a column: an object column of texts
\* only is a string column; an object column that also holds missing values
\* is one before pandas 2 and is not one from pandas 2 on (strict)
is_string_dtype(f, column, strict) ==
    /\ f.dtype[column] = "object"
    /\ (strict => \A i \in 1..f.nrows : f.data[column][i].t = "str")

TypeNames == {"int", "float", "str", "datetime"}

\* expected_type is one of the keys of type_mapping, or another text, for
\* which isinstance(x, expected_type) raises TypeError on the first value
expect_column_values_to_be_of_type(f, results, column, expected_type, strict) ==
    LET pre == expect_column_to_exist(f, results, column)
        text == "Column '" \o column \o "' values are of type " \o expected_type
    IN  IF ~pre.ret THEN Returns(pre.results, FALSE)
        ELSE IF expected_type \in TypeNames
        THEN LET result ==
                    CASE expected_type = "int"      -> f.dtype[column] = "int64"
                      [] expected_type = "float"    -> f.dtype[column] = "float64"
                      [] expected_type = "str"      -> is_string_dtype(f, column, strict)
                      [] expected_type = "datetime" -> is_datetime64_dtype(f.dtype[column])
             IN  Returns(_add_result(pre.results, text, result, ""), result)
        ELSE IF Len(DropNull(f.data[column])) > 0 THEN Raises(pre.results)
        ELSE Returns(_add_result(pre.results, text, TRUE, ""), TRUE)

(***************************************************************************)
(* validators/data_validator.py: validate_covid_data                       *)
(***************************************************************************)
IsDateName(col) == Contains(lower(col), "date")

IsLocationName(col) ==
    \E loc \in {"region", "location", "state"} : Contains(lower(col), loc)

FirstColumn_last(hits) == IF Len(hits) = 0 THEN "" ELSE hits[Len(hits)]

\* next((col for col in df.columns if ...), None), hits being the columns
\* the generator yields, in column order; "" stands for None
FirstColumn(hits) == IF Len(hits) = 0 THEN "" ELSE hits[1]

IsRateName(col) == Contains(lower(col), "rate") \/ Contains(lower(col), "percentage")

IsCountName(col) ==
    \E term \in {"cases", "deaths", "tests", "vaccinations"} : Contains(lower(col), term)

\* if column: expect_column_to_exist(column); expect_column_values_to_not_be_null(column)
BasicChecks(f, results, column) ==
    IF column = "" THEN results
    ELSE expect_column_values_to_not_be_null(
             f, expect_column_to_exist(f, results, column).results, column).results

\* df.select_dtypes(include=['number']).columns
numeric_columns(f) == SelectSeq(f.columns, LAMBDA c : is_numeric_dtype(f.dtype[c]))

RECURSIVE RangeChecks_countfirst(_, _, _, _)
RangeChecks_countfirst(f, r, cols, k) ==
    IF k > Len(cols) \/ r.raised THEN r
    ELSE IF IsCountName(cols[k])
    THEN RangeChecks_countfirst(f, expect_column_values_to_be_between(f, r.results, cols[k],
                                    ZERO, INFINITY), cols, k + 1)
    ELSE IF IsRateName(cols[k])
    THEN RangeChecks_countfirst(f, expect_column_values_to_be_between(f, r.results, cols[k],
                                    ZERO, HUNDRED), cols, k + 1)
    ELSE RangeChecks_countfirst(f, r, cols, k + 1)

RECURSIVE RangeChecks(_, _, _, _)
\* for col in numeric_columns; an exception ends the loop
RangeChecks(f, r, cols, k) ==
    IF k > Len(cols) \/ r.raised THEN r
    ELSE IF IsRateName(cols[k])
    THEN RangeChecks(f, expect_column_values_to_be_between(f, r.results, cols[k],
                                                           ZERO, HUNDRED), cols, k + 1)
    ELSE IF IsCountName(cols[k])
    THEN RangeChecks(f, expect_column_values_to_be_between(f, r.results, cols[k],
                                                           ZERO, INFINITY), cols, k + 1)
    ELSE RangeChecks(f, r, cols, k + 1)

\* the validator's results when validate_covid_data returns, and the value
\* it returns: validator.validate(), or False from the except branch
validate_covid_data(f) ==
    LET date_column == FirstColumn(SelectSeq(f.columns, IsDateName))
        location_column == FirstColumn(SelectSeq(f.columns, IsLocationName))
        basic == BasicChecks(f, BasicChecks(f, <<>>, date_column), location_column)
        ranged == RangeChecks(f, Returns(basic, TRUE), numeric_columns(f), 1)
    IN  IF ranged.raised THEN Returns(ranged.results, FALSE)
        ELSE validate(ranged.results)

(***************************************************************************)
(* The Record Sets the stages are called on.                               *)
(***************************************************************************)
NumeratorInts == {IntCell(0), IntCell(5)}

DenominatorInts == {IntCell(0), IntCell(100)}

FloatVals == {Null, Num(5, 2), Inf}

TextVals == {Null, Str("N/A")}

DateVals == {Null, Str("25/12/2020"), Str("soon")}

MoreDateVals == DateVals \cup {Str(""), Str("03/01/2020")}

TsVals == {Null, Ts(20200301)}

LocVals == {Null, Str(" NY "), Str("California")}

\* the columns of r rows of one dtype over a set of values; an int64 column
\* cannot hold a missing value
ColumnsOf(kind, vals, r) == {[kind |-> kind, cells |-> v] : v \in [1..r -> vals]}

\* the columns a numerator or a denominator of a rule is drawn from
SourceColumns(ints, r) ==
    ColumnsOf("int64", ints, r) \cup ColumnsOf("float64", FloatVals, r)
        \cup ColumnsOf("object", TextVals, r)

\* a Record Set of r rows from its column names and one column per name
MakeFrame(names, col, r) ==
    [columns |-> names,
     nrows   |-> r,
     dtype   |-> [c \in Range(names) |-> col[c].kind],
     data    |-> [c \in Range(names) |-> col[c].cells]]

Numerators == {RULES[k].num : k \in 1..Len(RULES)}

Denominators == {RULES[k].den : k \in 1..Len(RULES)}

SourceNames ==
    << "positive_tests", "total_tests", "deaths", "confirmed_cases",
       "total_vaccinations", "population", "occupied_beds", "total_beds" >>

\* all four pairs present; the numerators share one column of values and
\* the denominators another
CalcValueFrames ==
    UNION { { MakeFrame(SourceNames,
                        [c \in Range(SourceNames) |-> IF c \in Numerators THEN tn ELSE td],
                        r)
              : tn \in SourceColumns(NumeratorInts, r),
                td \in SourceColumns(DenominatorInts, r) }
            : r \in 0..MaxRows }

\* one row; each pair is absent, has one of its columns or both, and a
\* present pair may have a text numerator; with or without a
\* case_fatality_rate column in the input
CalcPresenceFrames ==
    LET one(v)  == [kind |-> IF v.t = "str" THEN "object" ELSE "int64", cells |-> <<v>>]
        rate    == [kind |-> "float64", cells |-> <<Num(150, 1)>>]
        choice  == [c \in Range(SourceNames) |->
                      IF c \in Numerators THEN {"absent", "count", "text"}
                      ELSE {"absent", "count"}]
        colOf(c, m) == IF c = "case_fatality_rate" THEN rate
                       ELSE IF m[c] = "text" THEN one(Str("N/A"))
                       ELSE IF c \in Numerators THEN one(IntCell(5))
                       ELSE one(IntCell(100))
    IN  { LET present == SelectSeq(SourceNames, LAMBDA c : m[c] # "absent")
              names   == IF pre THEN <<"case_fatality_rate">> \o present ELSE present
          IN  MakeFrame(names, [c \in Range(names) |-> colOf(c, m)], 1)
          : m \in {f \in [Range(SourceNames) -> {"absent", "count", "text"}] :
                      /\ \A c \in Range(SourceNames) : f[c] \in choice[c]
                      /\ \A k \in 1..Len(RULES) :
                            f[RULES[k].num] = "text" => f[RULES[k].den] = "count"},
            pre \in BOOLEAN }

GeneralNames == <<"date", "region", "deaths", "updated">>

GeneralColumns(c, r) ==
    CASE c = "date"    -> ColumnsOf("object", DateVals, r)
      [] c = "region"  -> ColumnsOf("object", LocVals, r)
      [] c = "deaths"  -> ColumnsOf("float64", FloatVals, r)
      [] c = "updated" -> ColumnsOf("datetime64", TsVals, r)

EmptyFrame == [columns |-> <<>>, nrows |-> 0, dtype |-> <<>>, data |-> <<>>]

\* one or two of the general columns, in the order of GeneralNames
GeneralFrames ==
    UNION { { MakeFrame(<<GeneralNames[i]>>, [c \in {GeneralNames[i]} |-> x], r)
              : x \in GeneralColumns(GeneralNames[i], r) }
            : i \in 1..Len(GeneralNames), r \in 0..MaxRows }
    \cup
    UNION { UNION { { MakeFrame(<<GeneralNames[ij[1]], GeneralNames[ij[2]]>>,
                                [c \in {GeneralNames[ij[1]], GeneralNames[ij[2]]} |->
                                    IF c = GeneralNames[ij[1]] THEN x ELSE y],
                                r)
                      : x \in GeneralColumns(GeneralNames[ij[1]], r),
                        y \in GeneralColumns(GeneralNames[ij[2]], r) }
                    : ij \in {p \in (1..Len(GeneralNames)) \X (1..Len(GeneralNames)) :
                                p[1] < p[2]} }
            : r \in 0..MaxRows }

\* one row and two candidate columns of one stage, in an order other than
\* that of the candidate list
TwoFieldFrames ==
    { MakeFrame(<<"report_date", "date">>,
                [c \in {"report_date", "date"} |-> IF c = "date" THEN x ELSE y], 1)
      : x \in ColumnsOf("object", MoreDateVals, 1),
        y \in ColumnsOf("object", MoreDateVals, 1) }
    \cup
    { MakeFrame(<<"state", "region">>,
                [c \in {"state", "region"} |-> IF c = "region" THEN x ELSE y], 1)
      : x \in ColumnsOf("object", LocVals, 1), y \in ColumnsOf("object", LocVals, 1) }

StageFrames ==
    {EmptyFrame} \cup GeneralFrames \cup TwoFieldFrames
        \cup CalcValueFrames \cup CalcPresenceFrames

(***************************************************************************)
(* State.  df is the DataFrame object the caller holds and passes to a     *)
(* stage; before is its content when the call was made; out is the         *)
(* DataFrame the call returned, same tells whether that is the object df,  *)
(* and call describes the call: the stage, its strategy and the point of   *)
(* the exception (0 for none).  validation_results is the validator's      *)
(* list of results, vcall its last operation with the value returned (or   *)
(* the exception raised), and nops the number of operations so far.        *)
(***************************************************************************)
VARIABLES df, before, out, same, call, validation_results, vcall, nops

\* run_pipeline: pc is the position in its sequence of tasks, cases_df,
\* hospitals_df and vaccinations_df are its three datasets, export_csv its
\* argument, results the dictionary it returns and tasks the Task objects
\* it has run, in order
VARIABLES pc, cases_df, hospitals_df, vaccinations_df, export_csv, results, tasks

stage_vars == <<df, before, out, same, call, validation_results, vcall, nops>>

pipeline_vars == <<pc, cases_df, hospitals_df, vaccinations_df, export_csv, results, tasks>>

\* SimpleScheduler.start: at is the statement it is at, running, last_run,
\* next_run and remaining_seconds are the scheduler's fields and the local
\* of its sleep loop, now is the clock (in seconds), phase the phase of the
\* pipeline run in flight (0 when there is none), runs the number of runs
\* begun, finished the time the last run ended and stop the first request
\* to stop: its time and the statement start() was at
VARIABLES at, running, now, last_run, next_run, remaining_seconds, phase, runs, finished, stop

scheduler_vars ==
    <<at, running, now, last_run, next_run, remaining_seconds, phase, runs, finished, stop>>

vars == <<stage_vars, pipeline_vars, scheduler_vars>>

\* None, for a time
NONE == -1

NoStop == [time |-> NONE, at |-> ""]

\* SimpleScheduler.__init__
Constructed ==
    /\ running = FALSE
    /\ now = 0
    /\ last_run = NONE
    /\ next_run = NONE
    /\ remaining_seconds = 0
    /\ phase = 0
    /\ runs = 0
    /\ finished = NONE
    /\ stop = NoStop

\* no scheduler is in use
NoScheduler == at = "none" /\ Constructed

\* no pipeline is running
NoPipeline ==
    /\ pc = 0
    /\ cases_df = [columns |-> <<>>, nrows |-> 0, dtype |-> <<>>, data |-> <<>>]
    /\ hospitals_df = cases_df
    /\ vaccinations_df = cases_df
    /\ export_csv = FALSE
    /\ results = <<>>
    /\ tasks = <<>>

NoCall == [stage |-> "none", strategy |-> "", fault |-> 0, faulted |-> FALSE]

NoVCall ==
    [op |-> "none", column |-> "", min_value |-> ZERO, max_value |-> ZERO,
     ret |-> FALSE, raised |-> FALSE]

Init ==
    /\ df \in StageFrames
    /\ before = df
    /\ out = df
    /\ same = TRUE
    /\ call = NoCall
    /\ validation_results = <<>>
    /\ vcall = NoVCall
    /\ nops = 0
    /\ NoPipeline
    /\ NoScheduler

\* the caller's view of one stage call with result r
Returned(stage, strategy, fault, r) ==
    /\ call.stage = "none"
    /\ before' = df
    /\ df' = r.arg
    /\ out' = r.ret
    /\ same' = r.same
    /\ call' = [stage |-> stage, strategy |-> strategy, fault |-> fault,
                faulted |-> r.faulted]
    /\ UNCHANGED <<validation_results, vcall, nops>>
    /\ UNCHANGED <<pipeline_vars, scheduler_vars>>

PresentOf(f, candidates) == SelectSeq(candidates, LAMBDA c : HasCol(f, c))

StandardizeDates ==
    \E fault \in 0..(1 + Len(PresentOf(df, DATE_FIELDS))) :
        Returned("standardize_dates", "", fault, standardize_dates(df, DATE_FIELDS, fault))

NormalizeLocations ==
    \E fault \in 0..(1 + Len(PresentOf(df, LOCATION_FIELDS))) :
        Returned("normalize_locations", "", fault,
                 normalize_locations(df, LOCATION_FIELDS, fault))

Strategies == {"default", "drop_rows", "drop_columns"}

HandleMissingValues ==
    \E strategy \in Strategies :
        \E fault \in 0..MissingSteps(df, strategy) :
            Returned("handle_missing_values", strategy, fault,
                     handle_missing_values(df, strategy, fault))

CreateCalculatedFields ==
    \E fault \in 0..(1 + Len(RULES)) :
        Returned("create_calculated_fields", "", fault,
                 create_calculated_fields(df, fault))

Next ==
    \/ StandardizeDates
    \/ NormalizeLocations
    \/ HandleMissingValues
    \/ CreateCalculatedFields

Spec == Init /\ [][Next]_vars

(***************************************************************************)
(* One SimpleValidator, constructed on a Record Set, and the sequences of  *)
(* at most MaxOps operations on it.                                        *)
(***************************************************************************)
ValidatorFrames ==
    {EmptyFrame}
    \cup { MakeFrame(<<"date", "positivity_rate">>,
                     [c \in {"date", "positivity_rate"} |-> IF c = "date" THEN x ELSE y], 2)
           : x \in { [kind |-> "object", cells |-> <<Str("2020-03-01"), Null>>],
                     [kind |-> "object", cells |-> <<Str("2020-03-01"), Str("2020-03-01")>>] },
             y \in { [kind |-> "float64", cells |-> <<Null, Null>>],
                     [kind |-> "float64", cells |-> <<Num(5, 2), Num(5, 2)>>],
                     [kind |-> "float64", cells |-> <<Null, Num(150, 1)>>],
                     [kind |-> "int64", cells |-> <<IntCell(50), IntCell(100)>>] } }

ValidatorInit ==
    /\ df \in ValidatorFrames
    /\ before = df
    /\ out = df
    /\ same = TRUE
    /\ call = NoCall
    /\ validation_results = <<>>
    /\ vcall = NoVCall
    /\ nops = 0
    /\ NoPipeline
    /\ NoScheduler

\* the columns an expectation is asked about: those of df and an absent one
ColumnArgs == {"date", "positivity_rate", "deaths"}

RangeArgs == {<<ZERO, HUNDRED>>, <<ZERO, INFINITY>>}

TypeArgs == {"int", "str", "integer"}

\* the validator after an operation with outcome r
PerformedRange(limit, op, column, min_value, max_value, r) ==
    /\ nops < limit
    /\ nops' = nops + 1
    /\ validation_results' = r.results
    /\ vcall' = [op |-> op, column |-> column, min_value |-> min_value,
                 max_value |-> max_value, ret |-> r.ret, raised |-> r.raised]
    /\ UNCHANGED <<df, before, out, same, call>>
    /\ UNCHANGED <<pipeline_vars, scheduler_vars>>

Performed(limit, op, column, r) == PerformedRange(limit, op, column, ZERO, ZERO, r)

ExpectColumnToExist(limit) ==
    \E column \in ColumnArgs :
        Performed(limit, "expect_column_to_exist", column,
                  expect_column_to_exist(df, validation_results, column))

ExpectNotNull(limit) ==
    \E column \in ColumnArgs :
        Performed(limit, "expect_column_values_to_not_be_null", column,
                  expect_column_values_to_not_be_null(df, validation_results, column))

ExpectBetween(limit, columns) ==
    \E column \in columns, range \in RangeArgs :
        PerformedRange(limit, "expect_column_values_to_be_between", column,
                       range[1], range[2],
                       expect_column_values_to_be_between(df, validation_results, column,
                                                          range[1], range[2]))

ExpectOfType(limit) ==
    \E column \in ColumnArgs, expected_type \in TypeArgs, strict \in BOOLEAN :
        Performed(limit, "expect_column_values_to_be_of_type", column,
                  expect_column_values_to_be_of_type(df, validation_results, column,
                                                     expected_type, strict))

ExpectUnique(limit) ==
    \E column \in ColumnArgs :
        Performed(limit, "expect_column_values_to_be_unique", column,
                  expect_column_values_to_be_unique(df, validation_results, column))

\* validate() records nothing, so it is not counted as an operation
Validate ==
    LET r == validate(validation_results)
    IN  /\ validation_results' = r.results
        /\ vcall' = [NoVCall EXCEPT !.op = "validate", !.ret = r.ret]
        /\ UNCHANGED <<df, before, out, same, call, nops>>
        /\ UNCHANGED <<pipeline_vars, scheduler_vars>>

ValidatorNext ==
    \/ ExpectColumnToExist(MaxOps)
    \/ ExpectNotNull(MaxOps)
    \/ ExpectBetween(MaxOps, ColumnArgs)
    \/ ExpectOfType(MaxOps)
    \/ ExpectUnique(MaxOps)
    \/ Validate

ValidatorSpec == ValidatorInit /\ [][ValidatorNext]_vars

(***************************************************************************)
(* validate_covid_data, and one range expectation of a new validator, on   *)
(* the Record Sets of a dataset.                                           *)
(***************************************************************************)
RangeInts == {IntCell(-1), IntCell(0), IntCell(100)}

RangeFloats == {Null, Num(101, 2), Inf}

\* two numeric columns, or a text and a timestamp column
RangeFrames ==
    UNION { { MakeFrame(<<"positivity_rate", "confirmed_cases">>,
                        [c \in {"positivity_rate", "confirmed_cases"} |->
                            IF c = "positivity_rate" THEN x ELSE y], r)
              : x \in ColumnsOf("int64", RangeInts, r) \cup ColumnsOf("float64", RangeFloats, r),
                y \in ColumnsOf("float64", RangeFloats, r) }
            \cup
            { MakeFrame(<<"notes", "updated">>,
                        [c \in {"notes", "updated"} |-> IF c = "notes" THEN x ELSE y], r)
              : x \in ColumnsOf("object", TextVals, r),
                y \in ColumnsOf("datetime64", TsVals, r) }
            : r \in 0..MaxRows }

DatasetNames ==
    << "Report_Date", "date", "State", "region", "positivity_rate", "Tests_Rate", "Percentage",
       "confirmed_cases", "Deaths", "total_vaccinations", "population" >>

NameColumns ==
    { [kind |-> "int64", cells |-> <<IntCell(50)>>],
      [kind |-> "int64", cells |-> <<IntCell(150)>>],
      [kind |-> "float64", cells |-> <<Null>>],
      [kind |-> "object", cells |-> <<Str("x")>>] }

\* one row; one column, or two columns in either order
NameFrames ==
    { MakeFrame(<<a>>, [c \in {a} |-> x], 1) : a \in Range(DatasetNames), x \in NameColumns }
    \cup
    UNION { { MakeFrame(<<ab[1], ab[2]>>,
                        [c \in {ab[1], ab[2]} |-> IF c = ab[1] THEN x ELSE y], 1)
              : x \in NameColumns, y \in NameColumns }
            : ab \in {p \in Range(DatasetNames) \X Range(DatasetNames) : p[1] # p[2]} }

DatasetInit ==
    /\ df \in RangeFrames \cup NameFrames
    /\ before = df
    /\ out = df
    /\ same = TRUE
    /\ call = NoCall
    /\ validation_results = <<>>
    /\ vcall = NoVCall
    /\ nops = 0
    /\ NoPipeline
    /\ NoScheduler

\* validate_covid_data(df): its own validator, and what it returns
ValidateCovidData ==
    LET r == validate_covid_data(df)
    IN  /\ nops = 0
        /\ nops' = 1
        /\ validation_results' = r.results
        /\ vcall' = [NoVCall EXCEPT !.op = "validate_covid_data", !.ret = r.ret]
        /\ UNCHANGED <<df, before, out, same, call>>
        /\ UNCHANGED <<pipeline_vars, scheduler_vars>>

DatasetNext ==
    \/ ExpectBetween(1, Range(df.columns) \cup {"absent"})
    \/ ValidateCovidData

DatasetSpec == DatasetInit /\ [][DatasetNext]_vars

(***************************************************************************)
(* orchestrator.py: run_pipeline, from the end of the extraction phase.    *)
(* Every function a Task runs catches its own exceptions, so Task.run      *)
(* returns the function's result.                                          *)
(***************************************************************************)
\* DataFrame.empty
empty(f) == f.nrows = 0 \/ Len(f.columns) = 0

\* one Task(...).run() statement of run_pipeline: block is the number of
\* statements of the `if not <dataset>.empty:` block that starts with it
\* (0 inside a block or outside any), key the entry of results that is set
\* after it
Step(name, function, dataset, block, key) ==
    [name |-> name, function |-> function, dataset |-> dataset, block |-> block, key |-> key]

PIPELINE ==
    << Step("Standardize Dates (Cases)", "standardize_dates", "cases", 4, ""),
       Step("Normalize Locations (Cases)", "normalize_locations", "cases", 0, ""),
       Step("Handle Missing Values (Cases)", "handle_missing_values", "cases", 0, ""),
       Step("Create Calculated Fields (Cases)", "create_calculated_fields", "cases", 0,
            "transform_cases"),
       Step("Standardize Dates (Hospitals)", "standardize_dates", "hospitals", 3, ""),
       Step("Normalize Locations (Hospitals)", "normalize_locations", "hospitals", 0, ""),
       Step("Handle Missing Values (Hospitals)", "handle_missing_values", "hospitals", 0,
            "transform_hospitals"),
       Step("Standardize Dates (Vaccinations)", "standardize_dates", "vaccinations", 3, ""),
       Step("Normalize Locations (Vaccinations)", "normalize_locations", "vaccinations", 0, ""),
       Step("Handle Missing Values (Vaccinations)", "handle_missing_values", "vaccinations", 0,
            "transform_vaccinations"),
       Step("Validate Cases", "validate_covid_data", "cases", 1, ""),
       Step("Validate Hospitals", "validate_covid_data", "hospitals", 1, ""),
       Step("Validate Vaccinations", "validate_covid_data", "vaccinations", 1, ""),
       Step("Create Database Schema", "create_database_schema", "", 0, ""),
       Step("Load Cases to SQLite", "load_to_sqlite", "cases", 1, ""),
       Step("Load Hospitals to SQLite", "load_to_sqlite", "hospitals", 1, ""),
       Step("Load Vaccinations to SQLite", "load_to_sqlite", "vaccinations", 1, ""),
       Step("Export Cases to CSV", "export_to_csv", "cases", 1, ""),
       Step("Export Hospitals to CSV", "export_to_csv", "hospitals", 1, ""),
       Step("Export Vaccinations to CSV", "export_to_csv", "vaccinations", 1, "") >>

\* return results
Done == Len(PIPELINE) + 1

Transforms ==
    {"standardize_dates", "normalize_locations", "handle_missing_values",
     "create_calculated_fields"}

Dataset(d) ==
    CASE d = "cases" -> cases_df
      [] d = "hospitals" -> hospitals_df
      [] d = "vaccinations" -> vaccinations_df

\* <dataset>_df = Task(...).run()
SetDataset(d, f) ==
    /\ cases_df' = IF d = "cases" THEN f ELSE cases_df
    /\ hospitals_df' = IF d = "hospitals" THEN f ELSE hospitals_df
    /\ vaccinations_df' = IF d = "vaccinations" THEN f ELSE vaccinations_df

\* the stage a transformation Task calls, with run_pipeline's arguments
StageResult(function, f) ==
    CASE function = "standardize_dates" -> standardize_dates(f, DATE_FIELDS, 0).ret
      [] function = "normalize_locations" -> normalize_locations(f, LOCATION_FIELDS, 0).ret
      [] function = "handle_missing_values" -> handle_missing_values(f, "default", 0).ret
      [] function = "create_calculated_fields" -> create_calculated_fields(f, 0).ret

\* Task.run(): the Task that has run, with the df it was given and the
\* result of its function
Task(step, f, result) ==
    [name |-> step.name, function |-> step.function, dataset |-> step.dataset,
     df |-> f, result |-> result]

\* the step at pc is a Task of one of the functions, in a block that is entered
AtTask(functions) ==
    /\ pc \in 1..Len(PIPELINE)
    /\ PIPELINE[pc].function \in functions
    /\ PIPELINE[pc].block > 0 => ~empty(Dataset(PIPELINE[pc].dataset))
    /\ PIPELINE[pc].function = "export_to_csv" => export_csv

\* the Task at pc has run with the given result
Ran(f, result) ==
    /\ tasks' = Append(tasks, Task(PIPELINE[pc], f, result))
    /\ pc' = pc + 1
    /\ UNCHANGED export_csv
    /\ UNCHANGED <<stage_vars, scheduler_vars>>

\* results[key] = <dataset>_df after the last Task of a transformation block
SetResult(key, f) ==
    results' = IF key = "" THEN results
               ELSE [k \in DOMAIN results \cup {key} |-> IF k = key THEN f ELSE results[k]]

RunTransform ==
    /\ AtTask(Transforms)
    /\ LET step == PIPELINE[pc]
           f == Dataset(step.dataset)
           r == StageResult(step.function, f)
       IN  /\ SetDataset(step.dataset, r)
           /\ SetResult(step.key, r)
           /\ Ran(f, r)

RunValidate ==
    /\ AtTask({"validate_covid_data"})
    /\ LET f == Dataset(PIPELINE[pc].dataset)
       IN  Ran(f, validate_covid_data(f).ret)
    /\ UNCHANGED <<cases_df, hospitals_df, vaccinations_df, results>>

\* create_database_schema returns True, or False when the database fails
RunCreateSchema ==
    /\ AtTask({"create_database_schema"})
    /\ \E ok \in BOOLEAN : Ran(EmptyFrame, ok)
    /\ UNCHANGED <<cases_df, hospitals_df, vaccinations_df, results>>

RunLoad_gated ==
    /\ AtTask({"load_to_sqlite"})
    /\ LET f == Dataset(PIPELINE[pc].dataset)
           valid == \A i \in 1..Len(tasks) :
                        /\ tasks[i].function = "validate_covid_data"
                        /\ tasks[i].dataset = PIPELINE[pc].dataset
                        => tasks[i].result
       IN  IF valid THEN \E ok \in BOOLEAN : Ran(f, ok)
           ELSE /\ pc' = pc + 1
                /\ UNCHANGED <<tasks, export_csv>>
                /\ UNCHANGED <<stage_vars, scheduler_vars>>
    /\ UNCHANGED <<cases_df, hospitals_df, vaccinations_df, results>>

\* load_to_sqlite returns True, or False when the database fails
RunLoad ==
    /\ AtTask({"load_to_sqlite"})
    /\ \E ok \in BOOLEAN : Ran(Dataset(PIPELINE[pc].dataset), ok)
    /\ UNCHANGED <<cases_df, hospitals_df, vaccinations_df, results>>

\* export_to_csv returns the path of the file (TRUE), or None (FALSE)
RunExport ==
    /\ AtTask({"export_to_csv"})
    /\ \E ok \in BOOLEAN : Ran(Dataset(PIPELINE[pc].dataset), ok)
    /\ UNCHANGED <<cases_df, hospitals_df, vaccinations_df, results>>

\* if not <dataset>.empty: the block is passed over
SkipEmpty ==
    /\ pc \in 1..Len(PIPELINE)
    /\ PIPELINE[pc].block > 0
    /\ empty(Dataset(PIPELINE[pc].dataset))
    /\ PIPELINE[pc].function = "export_to_csv" => export_csv
    /\ pc' = pc + PIPELINE[pc].block
    /\ UNCHANGED <<cases_df, hospitals_df, vaccinations_df, export_csv, results, tasks>>
    /\ UNCHANGED <<stage_vars, scheduler_vars>>

\* if export_csv: without it the exports are passed over
SkipExport ==
    /\ pc \in 1..Len(PIPELINE)
    /\ PIPELINE[pc].function = "export_to_csv"
    /\ ~export_csv
    /\ pc' = Done
    /\ UNCHANGED <<cases_df, hospitals_df, vaccinations_df, export_csv, results, tasks>>
    /\ UNCHANGED <<stage_vars, scheduler_vars>>

\* the datasets the extractors return: none, or two records
Extracted(names, col) == MakeFrame(names, col, 2)

ExtractedCases ==
    { EmptyFrame,
      Extracted(<<"date", "region", "confirmed_cases", "deaths">>,
          [c \in {"date", "region", "confirmed_cases", "deaths"} |->
              CASE c = "date" ->
                     [kind |-> "object", cells |-> <<Str("03/01/2020"), Str("2020-03-02")>>]
                [] c = "region" ->
                     [kind |-> "object", cells |-> <<Str(" NY "), Str("California")>>]
                [] c = "confirmed_cases" ->
                     [kind |-> "int64", cells |-> <<IntCell(100), IntCell(100)>>]
                [] c = "deaths" ->
                     [kind |-> "int64", cells |-> <<IntCell(5), IntCell(0)>>]]),
      Extracted(<<"date", "region", "confirmed_cases", "deaths">>,
          [c \in {"date", "region", "confirmed_cases", "deaths"} |->
              CASE c = "date" ->
                     [kind |-> "object", cells |-> <<Str("soon"), Null>>]
                [] c = "region" ->
                     [kind |-> "object", cells |-> <<Null, Str(" NY ")>>]
                [] c = "confirmed_cases" ->
                     [kind |-> "float64", cells |-> <<IntCell(100), Null>>]
                [] c = "deaths" ->
                     [kind |-> "float64", cells |-> <<IntCell(-1), Null>>]]) }

ExtractedHospitals ==
    { EmptyFrame } \cup
    { Extracted(<<"date", "location", "total_beds", "occupied_beds">>,
          [c \in {"date", "location", "total_beds", "occupied_beds"} |->
              CASE c = "date" ->
                     [kind |-> "object", cells |-> <<Str("03/01/2020"), Str("")>>]
                [] c = "location" ->
                     [kind |-> "object", cells |-> <<Str("wa"), Str("Texas")>>]
                [] c = "total_beds" ->
                     [kind |-> "int64", cells |-> <<IntCell(100), IntCell(100)>>]
                [] c = "occupied_beds" -> x])
      : x \in { [kind |-> "int64", cells |-> <<IntCell(5), IntCell(100)>>],
                [kind |-> "float64", cells |-> <<IntCell(5), Null>>] } }

ExtractedVaccinations ==
    { EmptyFrame } \cup
    { Extracted(<<"vaccination_date", "state", "total_vaccinations", "population">>,
          [c \in {"vaccination_date", "state", "total_vaccinations", "population"} |->
              CASE c = "vaccination_date" ->
                     IF x.kind = "int64"
                     THEN [kind |-> "object", cells |-> <<Str("25/12/2020"), Null>>]
                     ELSE [kind |-> "datetime64", cells |-> <<Ts(20201225), Null>>]
                [] c = "state" ->
                     [kind |-> "object", cells |-> <<Str("fl"), Str("fl")>>]
                [] c = "population" ->
                     [kind |-> "int64", cells |-> <<IntCell(100), IntCell(100)>>]
                [] c = "total_vaccinations" -> x])
      : x \in { [kind |-> "int64", cells |-> <<IntCell(5), IntCell(100)>>],
                [kind |-> "float64", cells |-> <<IntCell(-1), Null>>] } }

\* run_pipeline after its extraction phase
PipelineInit ==
    /\ df = EmptyFrame
    /\ before = df
    /\ out = df
    /\ same = TRUE
    /\ call = NoCall
    /\ validation_results = <<>>
    /\ vcall = NoVCall
    /\ nops = 0
    /\ pc = 1
    /\ cases_df \in ExtractedCases
    /\ hospitals_df \in ExtractedHospitals
    /\ vaccinations_df \in ExtractedVaccinations
    /\ export_csv \in BOOLEAN
    /\ results = [extract_csv |-> cases_df, extract_json |-> hospitals_df,
                  extract_api |-> vaccinations_df]
    /\ tasks = <<>>
    /\ NoScheduler

PipelineNext ==
    \/ RunTransform
    \/ RunValidate
    \/ RunCreateSchema
    \/ RunLoad
    \/ RunExport
    \/ SkipEmpty
    \/ SkipExport

PipelineSpec == PipelineInit /\ [][PipelineNext]_vars

(***************************************************************************)
(* orchestrator.py: SimpleScheduler, and main.py: signal_handler.  Time    *)
(* passes while a phase of run_pipeline works and while time.sleep sleeps; *)
(* the statements of start() themselves take no time.  stop() may be       *)
(* called by another thread while start() executes; a signal runs          *)
(* signal_handler in the thread of start(), between two of its bytecodes.  *)
(***************************************************************************)
\* SimpleScheduler(interval_minutes=args.schedule)
interval_minutes == 1

\* timedelta(minutes=...).total_seconds()
timedelta(minutes) == minutes * 60

\* the phases of run_pipeline, as it logs them
PHASES == <<"extraction", "transformation", "validation", "loading">>

\* run_pipeline has returned, or raised into `except Exception`
Ended == Len(PHASES) + 1

\* the seconds a phase may take
Durations == {0, 15, 30}

MaxRuns == 2

\* the statements of start() at which it executes
Executing == {"while", "run_pipeline", "sleep", "time.sleep"}

SchedulerInit ==
    /\ df = EmptyFrame
    /\ before = df
    /\ out = df
    /\ same = TRUE
    /\ call = NoCall
    /\ validation_results = <<>>
    /\ vcall = NoVCall
    /\ nops = 0
    /\ NoPipeline
    /\ at = "new"
    /\ Constructed

\* Python: min(a, b)
min(a, b) == IF a <= b THEN a ELSE b

\* start(): self.running = True
Start ==
    /\ at = "new"
    /\ running' = TRUE
    /\ at' = "while"
    /\ UNCHANGED <<now, last_run, next_run, remaining_seconds, phase, runs, finished, stop>>
    /\ UNCHANGED <<stage_vars, pipeline_vars>>

\* while self.running
KeepsRunning == running

\* the loop test passes: self.last_run = datetime.now(); run_pipeline(...)
BeginRun ==
    /\ at = "while"
    /\ KeepsRunning
    /\ runs < MaxRuns
    /\ last_run' = now
    /\ phase' = 1
    /\ runs' = runs + 1
    /\ at' = "run_pipeline"
    /\ UNCHANGED <<running, now, next_run, remaining_seconds, finished, stop>>
    /\ UNCHANGED <<stage_vars, pipeline_vars>>

\* the loop test fails: start() returns
Return ==
    /\ at = "while"
    /\ ~KeepsRunning
    /\ at' = "returned"
    /\ UNCHANGED <<running, now, last_run, next_run, remaining_seconds, phase, runs,
                   finished, stop>>
    /\ UNCHANGED <<stage_vars, pipeline_vars>>

\* a phase of the run in flight does its work
RunPhase ==
    /\ at = "run_pipeline"
    /\ phase \in 1..Len(PHASES)
    /\ \E seconds \in Durations : now' = now + seconds
    /\ phase' = phase + 1
    /\ UNCHANGED <<at, running, last_run, next_run, remaining_seconds, runs, finished, stop>>
    /\ UNCHANGED <<stage_vars, pipeline_vars>>

\* run_pipeline raises in a phase: except Exception in start() logs it
RunFails ==
    /\ at = "run_pipeline"
    /\ phase \in 1..Len(PHASES)
    /\ \E seconds \in Durations : now' = now + seconds
    /\ phase' = Ended
    /\ UNCHANGED <<at, running, last_run, next_run, remaining_seconds, runs, finished, stop>>
    /\ UNCHANGED <<stage_vars, pipeline_vars>>

\* after the run: next_run, sleep_seconds and the branch on sleep_seconds > 0
Schedule ==
    /\ at = "run_pipeline"
    /\ phase = Ended
    /\ phase' = 0
    /\ finished' = now
    /\ next_run' = last_run + timedelta(interval_minutes)
    /\ LET sleep_seconds == next_run' - now
       IN  IF sleep_seconds > 0
           THEN remaining_seconds' = sleep_seconds /\ at' = "sleep"
           ELSE remaining_seconds' = remaining_seconds /\ at' = "while"
    /\ UNCHANGED <<running, now, last_run, runs, stop>>
    /\ UNCHANGED <<stage_vars, pipeline_vars>>

Sleeps_through == remaining_seconds > 0

\* while remaining_seconds > 0 and self.running
Sleeps == remaining_seconds > 0 /\ running

\* the test of the sleep loop: into time.sleep, or back to the outer loop
SleepTest ==
    /\ at = "sleep"
    /\ at' = IF Sleeps THEN "time.sleep" ELSE "while"
    /\ UNCHANGED <<running, now, last_run, next_run, remaining_seconds, phase, runs,
                   finished, stop>>
    /\ UNCHANGED <<stage_vars, pipeline_vars>>

increment_fixed(remaining) == 10

\* min(10, remaining_seconds)
increment(remaining) == min(10, remaining)

\* time.sleep(min(10, remaining_seconds)) returns; remaining_seconds -= 10
Wake ==
    /\ at = "time.sleep"
    /\ now' = now + increment(remaining_seconds)
    /\ remaining_seconds' = remaining_seconds - 10
    /\ at' = "sleep"
    /\ UNCHANGED <<running, last_run, next_run, phase, runs, finished, stop>>
    /\ UNCHANGED <<stage_vars, pipeline_vars>>

\* the first request to stop is remembered
Requested == IF stop = NoStop THEN [time |-> now, at |-> at] ELSE stop

\* stop(), called by another thread while start() executes
Stop ==
    /\ at \in Executing
    /\ stop = NoStop
    /\ running' = FALSE
    /\ stop' = Requested
    /\ UNCHANGED <<at, now, last_run, next_run, remaining_seconds, phase, runs, finished>>
    /\ UNCHANGED <<stage_vars, pipeline_vars>>

\* signal_handler: scheduler.stop(), then sys.exit(0) raises SystemExit at
\* the statement start() is at; no `except Exception` catches it
Signal ==
    /\ at \in Executing
    /\ running' = FALSE
    /\ stop' = Requested
    /\ at' = "exit"
    /\ UNCHANGED <<now, last_run, next_run, remaining_seconds, phase, runs, finished>>
    /\ UNCHANGED <<stage_vars, pipeline_vars>>

\* the steps of the thread that executes start()
SchedulerStep ==
    \/ Start
    \/ BeginRun
    \/ Return
    \/ RunPhase
    \/ RunFails
    \/ Schedule
    \/ SleepTest
    \/ Wake

SchedulerNext ==
    \/ SchedulerStep
    \/ Stop
    \/ Signal

SchedulerSpec == SchedulerInit /\ [][SchedulerNext]_vars

\* the thread of start() is not halted for ever, and every phase of a run
\* ends
SchedulerLiveSpec == SchedulerSpec /\ WF_vars(SchedulerStep)

(***************************************************************************)
(* Properties of the four stages.                                          *)
(***************************************************************************)
Called(stage) == call.stage = stage

Cells(f) == {<<c, i>> : c \in Range(f.columns), i \in 1..f.nrows}

\* C1: fail-open.  Whenever an exception is raised inside one of the four
\* stages, at the copy or after any number of columns or rules have been
\* worked on, the stage returns a Record Set equal to the input it was
\* given: the same columns, dtypes and cells, and no derived column.
C1_FailOpen == call.faulted => out = before /\ same

\* a later rule of the calculator raised after the first rule had computed
\* its column on the copy
C1_Witness ==
    /\ Called("create_calculated_fields") /\ call.faulted /\ call.fault = 0
    /\ RulePresent(before, RULES[1]) /\ ~DivRaises(before, RULES[1])
    /\ before.nrows > 0

\* C2: no stage mutates its input.  After every call of a stage, on the
\* success path, the no-op path and the fault path, the caller's Record Set
\* has the columns, dtypes and cells it had before the call.
C2_InputUnchanged == call.stage # "none" => df = before

\* a call that returned a Record Set different from its input
C2_Witness == call.stage # "none" /\ ~call.faulted /\ out # before /\ ~same

DefaultCall == Called("handle_missing_values") /\ call.strategy = "default" /\ ~call.faulted

\* C3: the default strategy resolves a missing cell by the kind of its
\* column: 0 in a numeric column, still null in a datetime column, the
\* text "Unknown" in any other column; every cell that is not missing keeps
\* its value, and columns, rows and the dtype of every column without
\* missing values are unchanged.
C3_DefaultByKind ==
    DefaultCall =>
        /\ out.columns = before.columns
        /\ out.nrows = before.nrows
        /\ \A c \in Range(before.columns) :
              /\ NullCount(before.data[c]) = 0 => out.dtype[c] = before.dtype[c]
              /\ \A i \in 1..before.nrows :
                    out.data[c][i] =
                        IF ~isna(before.data[c][i]) THEN before.data[c][i]
                        ELSE IF before.dtype[c] \in {"int64", "float64"} THEN IntCell(0)
                        ELSE IF before.dtype[c] = "datetime64" THEN Null
                        ELSE Str("Unknown")

\* a default call on a Record Set with a missing number and a missing text
\* or timestamp
C3_Witness ==
    /\ DefaultCall
    /\ \E c \in Range(before.columns) :
          before.dtype[c] = "float64" /\ NullCount(before.data[c]) > 0
    /\ \E c \in Range(before.columns) :
          before.dtype[c] \in {"object", "datetime64"} /\ NullCount(before.data[c]) > 0

MissingCells(f) == {x \in Cells(f) : isna(f.data[x[1]][x[2]])}

\* C4 as claimed: whatever the strategy, the Record Set returned by
\* handle_missing_values (when it did not fail open) has no missing cell.
C4_NoMissingAnywhere ==
    Called("handle_missing_values") /\ ~call.faulted => MissingCells(out) = {}

\* C4 as amended: the Record Set returned by handle_missing_values, when
\* it did not fail open, has no missing cell except, under the default
\* strategy, the missing cells of datetime columns, which stay null.
C4_NoMissingExceptDatetime ==
    Called("handle_missing_values") /\ ~call.faulted =>
        \A x \in MissingCells(out) :
            /\ call.strategy = "default"
            /\ before.dtype[x[1]] = "datetime64"

\* drop_rows removed the rows with missing values
C4_Witness ==
    /\ Called("handle_missing_values") /\ ~call.faulted
    /\ call.strategy = "drop_rows"
    /\ MissingCells(before) # {} /\ MissingCells(out) = {}
    /\ out.nrows > 0

CalcCall == Called("create_calculated_fields") /\ call.fault = 0

RuleSet == {RULES[k] : k \in 1..Len(RULES)}

PresentRules(f) == {r \in RuleSet : HasCol(f, r.num) /\ HasCol(f, r.den)}

\* the derived value the claim gives row i of rule r: 0 when the
\* denominator is 0 or either source is null, else the number q with
\* q * den = num * 100
DerivedAsClaimed(f, r, i, q) ==
    LET num == f.data[r.num][i]
        den == f.data[r.den][i]
    IN  /\ q.t = "num" /\ q.d # 0
        /\ IF isna(num) \/ isna(den) \/ (den.t = "num" /\ den.n = 0)
           THEN q.n = 0
           ELSE /\ num.t = "num" /\ den.t = "num"
                /\ q.n * den.n * num.d = num.n * 100 * den.d * q.d

AllDerivedAsClaimed ==
    \A r \in PresentRules(before) :
        /\ HasCol(out, r.out)
        /\ out.nrows = before.nrows
        /\ \A i \in 1..before.nrows : DerivedAsClaimed(before, r, i, out.data[r.out][i])

FiniteNumericSources(f) ==
    \A r \in PresentRules(f) : \A c \in {r.num, r.den} :
        /\ is_numeric_dtype(f.dtype[c])
        /\ \A i \in 1..f.nrows : ~IsInf(f.data[c][i])

C6_DerivedIffPairPresent ==
    CalcCall =>
        \A r \in RuleSet :
            HasCol(out, r.out) <=> (r \in PresentRules(before) \/ HasCol(before, r.out))

NumericSources(f) ==
    \A r \in PresentRules(f) :
        is_numeric_dtype(f.dtype[r.num]) /\ is_numeric_dtype(f.dtype[r.den])

\* C6 as amended: the same, for Record Sets in which the source columns of
\* every present pair are numeric; and in no case is a derived column added
\* for a rule whose pair is not present.
C6_DerivedIffNumericPairPresent ==
    CalcCall =>
        /\ NumericSources(before) =>
              \A r \in RuleSet :
                  HasCol(out, r.out) <=> (r \in PresentRules(before) \/ HasCol(before, r.out))
        /\ \A r \in RuleSet \ PresentRules(before) :
              HasCol(out, r.out) => HasCol(before, r.out)

\* the first pair is absent, one column of the third is present, and the
\* second and fourth pairs got their derived columns
C6_Witness ==
    /\ CalcCall /\ NumericSources(before)
    /\ ~HasCol(before, "positive_tests") /\ ~HasCol(before, "total_tests")
    /\ HasCol(before, "population") /\ ~HasCol(before, "total_vaccinations")
    /\ ~HasCol(before, "case_fatality_rate")
    /\ HasCol(out, "case_fatality_rate") /\ HasCol(out, "hospital_utilization_rate")
    /\ ~HasCol(out, "positivity_rate") /\ ~HasCol(out, "vaccination_rate")

(***************************************************************************)
(* Properties of the validator.                                            *)
(***************************************************************************)
Last(entries) == entries[Len(entries)]

NonNull(f, column) == {i \in 1..f.nrows : ~isna(f.data[column][i])}

BetweenCall ==
    /\ vcall.op = "expect_column_values_to_be_between"
    /\ HasCol(df, vcall.column)

\* C7: a range expectation on an existing column returns true exactly when
\* the column has a value that is not null and every such value is a number
\* v with min <= v <= max, both bounds allowed; on a column that has no rows
\* or only nulls it returns false and the result it records has failed.
C7_RangeInclusive ==
    BetweenCall =>
        /\ (vcall.ret /\ ~vcall.raised) <=>
              /\ NonNull(df, vcall.column) # {}
              /\ \A i \in NonNull(df, vcall.column) :
                    LET v == df.data[vcall.column][i]
                    IN  /\ v.t = "num"
                        /\ v.n * vcall.min_value.v.d >= vcall.min_value.v.n * v.d
                        /\ v.n * vcall.max_value.v.d <= vcall.max_value.v.n * v.d
        /\ NonNull(df, vcall.column) = {} =>
              /\ ~vcall.ret /\ ~vcall.raised
              /\ Len(validation_results) = 2
              /\ ~Last(validation_results).success
        /\ vcall.ret => Last(validation_results).success

\* a column whose smallest value is the lower bound 0 and whose largest is
\* the upper bound 100, with a null besides, passed the range 0 to 100
C7_Witness ==
    /\ BetweenCall /\ vcall.ret
    /\ vcall.max_value = HUNDRED
    /\ \E i \in 1..df.nrows : df.data[vcall.column][i] = IntCell(0)
    /\ \E i \in 1..df.nrows : df.data[vcall.column][i] = IntCell(100)

ExistsEntry(column, success) ==
    [expectation |-> "Column '" \o column \o "' exists", success |-> success, details |-> ""]

\* C8: a not-null expectation on an absent column returns false and records
\* the failed existence result and nothing else; on a present column it
\* records the passed existence result and then its own result, and returns
\* true exactly when the column has no null cell.
C8_NotNullChecksExistence ==
    [][vcall'.op = "expect_column_values_to_not_be_null" =>
          IF ~HasCol(df, vcall'.column)
          THEN /\ ~vcall'.ret /\ ~vcall'.raised
               /\ validation_results' =
                      Append(validation_results, ExistsEntry(vcall'.column, FALSE))
          ELSE /\ ~vcall'.raised
               /\ vcall'.ret <=>
                      \A i \in 1..df.nrows : df.data[vcall'.column][i].t # "null"
               /\ Len(validation_results') = Len(validation_results) + 2
               /\ SubSeq(validation_results', 1, Len(validation_results) + 1) =
                      Append(validation_results, ExistsEntry(vcall'.column, TRUE))
               /\ Last(validation_results').success = vcall'.ret
               /\ Last(validation_results').expectation =
                      "Column '" \o vcall'.column \o "' has no null values"]_vars

\* a not-null expectation on the absent column, after an earlier operation
C8_Witness ==
    /\ vcall.op = "expect_column_values_to_not_be_null"
    /\ ~HasCol(df, vcall.column)
    /\ nops = 2
    /\ ~vcall.ret

\* C9: validate() returns true exactly when every result recorded so far
\* has passed (so it returns true when there is none), and it leaves the
\* recorded results as they are.
C9_ValidateAllPassed ==
    [][vcall'.op = "validate" =>
          /\ validation_results' = validation_results
          /\ ~vcall'.raised
          /\ vcall'.ret <=>
                \A i \in 1..Len(validation_results) : validation_results[i].success]_vars

\* validate() returned false on results of which some passed and one failed
C9_Witness ==
    /\ vcall.op = "validate" /\ ~vcall.ret
    /\ Len(validation_results) >= 3
    /\ \E i \in 1..Len(validation_results) : validation_results[i].success
    /\ \E i \in 1..Len(validation_results) : ~validation_results[i].success

HasEntry(text) ==
    \E i \in 1..Len(validation_results) : validation_results[i].expectation = text

NameHas(column, words) == \E w \in words : Contains(lower(column), w)

\* C10: validate_covid_data records a range expectation 0 to 100 for
\* exactly the numeric columns whose lowercased name contains "rate" or
\* "percentage", a range expectation 0 to inf for exactly the other numeric
\* columns whose lowercased name contains "cases", "deaths", "tests" or
\* "vaccinations", none for any other column, and returns true exactly when
\* every result it recorded has passed.
C10_RangeByName ==
    vcall.op = "validate_covid_data" =>
        /\ \A c \in Range(df.columns) :
              LET numeric == df.dtype[c] \in {"int64", "float64"}
                  rate    == NameHas(c, {"rate", "percentage"})
                  count   == NameHas(c, {"cases", "deaths", "tests", "vaccinations"})
              IN  /\ HasEntry("Column '" \o c \o "' values between 0 and 100")
                        <=> (numeric /\ rate)
                  /\ HasEntry("Column '" \o c \o "' values between 0 and inf")
                        <=> (numeric /\ ~rate /\ count)
        /\ vcall.ret <=>
              \A i \in 1..Len(validation_results) : validation_results[i].success

\* a numeric column named for tests and for a rate got the range 0 to 100,
\* beside a count column that got the range 0 to inf
C10_Witness ==
    /\ vcall.op = "validate_covid_data"
    /\ HasEntry("Column 'Tests_Rate' values between 0 and 100")
    /\ HasEntry("Column 'Deaths' values between 0 and inf")
    /\ vcall.ret

\* the first column of df, in column order, whose name (lowercased when
\* fold holds) contains one of the words; "" when there is none
FirstNamed(words, fold) ==
    LET hits == {i \in 1..Len(df.columns) :
                    \E w \in words :
                        Contains(IF fold THEN lower(df.columns[i]) ELSE df.columns[i], w)}
    IN  IF hits = {} THEN ""
        ELSE df.columns[CHOOSE i \in hits : \A j \in hits : i <= j]

RangeChecked(c) ==
    \/ HasEntry("Column '" \o c \o "' values between 0 and 100")
    \/ HasEntry("Column '" \o c \o "' values between 0 and inf")

\* a not-null result is recorded for exactly the date column and the
\* location column that were found, each with an existence result; the
\* only other existence results are those of the range checks
BasicChecksFor(fold) ==
    LET chosen == {FirstNamed({"date"}, fold),
                   FirstNamed({"region", "location", "state"}, fold)}
    IN  \A c \in Range(df.columns) :
            /\ HasEntry("Column '" \o c \o "' has no null values") <=> c \in chosen
            /\ c \in chosen => HasEntry("Column '" \o c \o "' exists")
            /\ HasEntry("Column '" \o c \o "' exists") => c \in chosen \/ RangeChecked(c)

\* C11 as claimed: validate_covid_data takes as date column the first
\* column whose name contains "date" and as location column the first
\* whose name contains "region", "location" or "state" (the names as they
\* are written); it records an existence and a not-null result for each
\* one found, and none for any other column.
C11_FirstNamedAsWritten ==
    vcall.op = "validate_covid_data" => BasicChecksFor(FALSE)

\* C11 as amended: the same, the words being looked for in the lowercased
\* column name.
C11_FirstNamedLowercased ==
    vcall.op = "validate_covid_data" => BasicChecksFor(TRUE)

\* of two date columns the first got the checks and the second got none
C11_Witness ==
    /\ vcall.op = "validate_covid_data"
    /\ df.columns = <<"date", "Report_Date">>
    /\ HasEntry("Column 'date' exists")
    /\ HasEntry("Column 'date' has no null values")
    /\ ~HasEntry("Column 'Report_Date' exists")

ExpectationOps ==
    {"expect_column_to_exist", "expect_column_values_to_not_be_null",
     "expect_column_values_to_be_between", "expect_column_values_to_be_of_type",
     "expect_column_values_to_be_unique"}

\* C12: no operation of the validator raises: each one returns a boolean,
\* and an expectation that returns false has recorded a failed result.
C12_NeverRaises ==
    /\ ~vcall.raised
    /\ vcall.op \in ExpectationOps /\ ~vcall.ret =>
          Len(validation_results) > 0 /\ ~Last(validation_results).success

AbsenceEntries(column) ==
    {i \in 1..Len(validation_results) :
        /\ validation_results[i].expectation = "Column '" \o column \o "' exists"
        /\ ~validation_results[i].success}

\* C13: once the date column has been required of a Record Set that lacks
\* it, validate() returns false and the results hold a failed entry for the
\* column whose details are a text that is not empty.
C13_AbsentDateReported ==
    /\ vcall.op = "validate"
    /\ ~HasCol(df, "date")
    /\ HasEntry("Column 'date' exists")
    => /\ ~vcall.ret
       /\ \E i \in AbsenceEntries("date") : validation_results[i].details # ""

DatesCall == Called("standardize_dates") /\ call.fault = 0

\* the texts of the Record Sets that hold a date, and the calendar date
\* each of them is read as, in the canonical form
Canonical ==
    [x \in {Str("03/01/2020"), Str("25/12/2020")} |->
        IF x = Str("03/01/2020") THEN Str("2020-03-01") ELSE Str("2020-12-25")]

\* C16: standardize_dates (when no other fault occurs) returns normally
\* and maps each cell of each present candidate column by itself: a null,
\* an empty text or a text that is no date gives null, a text that is a
\* date gives that date as YYYY-MM-DD, whatever the other cells hold.
C16_DatesCellByCell ==
    DatesCall =>
        /\ ~call.faulted
        /\ out.nrows = before.nrows
        /\ \A c \in Range(DATE_FIELDS) \cap Range(before.columns) :
              /\ HasCol(out, c)
              /\ \A i \in 1..before.nrows :
                    out.data[c][i] =
                        IF before.data[c][i] \in DOMAIN Canonical
                        THEN Canonical[before.data[c][i]]
                        ELSE Null

\* a text that is no date became null and the date after it was converted
C16_Witness ==
    /\ DatesCall
    /\ before.nrows = 2 /\ HasCol(before, "date")
    /\ before.data["date"] = <<Str("soon"), Str("25/12/2020")>>
    /\ out.data["date"] = <<Null, Str("2020-12-25")>>

Candidates ==
    IF Called("standardize_dates") THEN Range(DATE_FIELDS) ELSE Range(LOCATION_FIELDS)

\* C17: standardize_dates and normalize_locations return a Record Set with
\* the columns (in their order) and the number of rows of the input, in
\* which every column that is not a candidate has the cells (row by row)
\* and the dtype it had; when no candidate column is present the Record Set
\* returned equals the input and no exception was raised.
C17_OnlyCandidateColumns ==
    Called("standardize_dates") \/ Called("normalize_locations") =>
        /\ out.columns = before.columns
        /\ out.nrows = before.nrows
        /\ \A c \in Range(before.columns) \ Candidates :
              out.data[c] = before.data[c] /\ out.dtype[c] = before.dtype[c]
        /\ Range(before.columns) \cap Candidates = {} =>
              out = before /\ (call.fault = 0 => ~call.faulted)

\* the date column was rewritten beside a column that is no candidate
C17_Witness ==
    /\ Called("standardize_dates") /\ ~call.faulted
    /\ before.columns = <<"date", "deaths">>
    /\ before.nrows = 2
    /\ out.data["date"] # before.data["date"]
    /\ NullCount(before.data["deaths"]) = 1

LocationsCall == Called("normalize_locations") /\ call.fault = 0

\* the texts of the location columns, trimmed, lowercased and looked up in
\* the alias table
Aliased ==
    [x \in {Str(" NY "), Str("California")} |->
        IF x = Str(" NY ") THEN Str("new york") ELSE Str("california")]

\* clean_location on the values of the claim
CleanLocationCases ==
    /\ clean_location(Null) = Null
    /\ clean_location(Str(" NY ")) = Str("new york")
    /\ clean_location(Str("California")) = Str("california")

\* C18: clean_location maps null to null, " NY " to "new york" (trimmed,
\* lowercased, found in the alias table) and "California" to "california"
\* (no alias: passed on), and normalize_locations (when no other fault
\* occurs) returns normally and maps every cell of every present candidate
\* column in this way.
C18_CleanLocation ==
    /\ CleanLocationCases
    /\ LocationsCall =>
          /\ ~call.faulted
          /\ out.nrows = before.nrows
          /\ \A c \in Range(LOCATION_FIELDS) \cap Range(before.columns) :
                /\ HasCol(out, c)
                /\ \A i \in 1..before.nrows :
                      out.data[c][i] =
                          IF before.data[c][i] \in DOMAIN Aliased
                          THEN Aliased[before.data[c][i]]
                          ELSE Null

\* two location columns, one with an alias and one with a null
C18_Witness ==
    /\ LocationsCall
    /\ before.columns = <<"state", "region">>
    /\ before.data["state"] = <<Str(" NY ")>>
    /\ before.data["region"] = <<Null>>
    /\ out.data["state"] = <<Str("new york")>>
    /\ out.data["region"] = <<Null>>

StrategyCall(strategy) ==
    Called("handle_missing_values") /\ call.strategy = strategy /\ call.fault = 0

\* the rows of f without a missing value
CompleteRows(f) == {i \in 1..f.nrows : \A c \in Range(f.columns) : ~isna(f.data[c][i])}

\* C19: drop_rows (when no fault occurs) returns the columns of the input
\* and exactly its rows that have no missing value, in their order: the
\* k-th such row of the input is row k of the result.
C19_DropRows ==
    StrategyCall("drop_rows") =>
        /\ ~call.faulted
        /\ out.columns = before.columns
        /\ out.nrows = Cardinality(CompleteRows(before))
        /\ \A i \in CompleteRows(before) : \A c \in Range(before.columns) :
              out.data[c][Cardinality({j \in CompleteRows(before) : j <= i})]
                  = before.data[c][i]

\* of two rows the first, missing one of its two values, was removed and
\* the second was kept
C19_Witness ==
    /\ StrategyCall("drop_rows")
    /\ Len(before.columns) = 2 /\ before.nrows = 2
    /\ CompleteRows(before) = {2}
    /\ \E c \in Range(before.columns) : ~isna(before.data[c][1])
    /\ out.nrows = 1

\* the columns of f with a missing value
GapColumns(f) == {c \in Range(f.columns) : \E i \in 1..f.nrows : isna(f.data[c][i])}

\* C20: drop_columns (when no fault occurs) returns the input without
\* exactly the columns that have a missing value: the other columns, in
\* their order, with all rows and their cells and dtypes.
C20_DropColumns ==
    StrategyCall("drop_columns") =>
        /\ ~call.faulted
        /\ out.columns = SelectSeq(before.columns, LAMBDA c : c \notin GapColumns(before))
        /\ out.nrows = before.nrows
        /\ \A c \in Range(out.columns) :
              out.data[c] = before.data[c] /\ out.dtype[c] = before.dtype[c]

\* both columns had a missing value and both were removed, the rows kept
C20_Witness ==
    /\ StrategyCall("drop_columns")
    /\ Len(before.columns) = 2 /\ before.nrows = 2
    /\ GapColumns(before) = Range(before.columns)
    /\ out.columns = <<>> /\ out.nrows = 2

\* C21: the default strategy is idempotent: applied to the Record Set a
\* default call returned (no fault occurring in either call), it returns a
\* Record Set with the same columns, dtypes and cells.
C21_DefaultIdempotent ==
    StrategyCall("default") =>
        /\ ~call.faulted
        /\ handle_missing_values(out, "default", 0).ret = out

\* the first call filled a text column and a column of numbers and left
\* nothing for the second, or left the missing timestamps the second meets
C21_Witness ==
    /\ StrategyCall("default")
    /\ out # before
    /\ Len(before.columns) = 2 /\ before.nrows = 2
    /\ \A c \in Range(before.columns) : NullCount(before.data[c]) > 0
    /\ \E c \in Range(before.columns) : before.dtype[c] = "datetime64"

\* the number of results an operation on column of a Record Set f is to
\* append: one for the existence check, and for a composite check one when
\* the column is absent and two when it is present
Appended(f, op, column) ==
    IF op = "expect_column_to_exist" \/ ~HasCol(f, column) THEN 1 ELSE 2

\* C22: every expectation appends to the results the number of entries
\* fixed for it, the first of them the existence result of its column, and
\* keeps the entries recorded before; validate() appends none.
C22_FixedCount ==
    [][/\ nops' = nops + 1 =>
             /\ Len(validation_results') =
                    Len(validation_results) + Appended(df, vcall'.op, vcall'.column)
             /\ SubSeq(validation_results', 1, Len(validation_results) + 1) =
                    Append(validation_results,
                           ExistsEntry(vcall'.column, HasCol(df, vcall'.column)))
       /\ nops' = nops => validation_results' = validation_results]_vars

\* in every row of f the sources of rule r are numbers with
\* 0 <= numerator <= denominator
WellFormed(f, r) ==
    /\ RulePresent(f, r)
    /\ \A i \in 1..f.nrows :
          LET num == f.data[r.num][i]
              den == f.data[r.den][i]
          IN  /\ num.t = "num" /\ den.t = "num"
              /\ LeqNum(IntCell(0), num) /\ LeqNum(num, den)

\* the derived column of rule r holds numbers from 0 to 100 only, 0 where
\* the denominator is 0, and the range expectation 0 to 100 on it passes,
\* by itself and among recorded, the results of validate_covid_data
RateInRange(r, recorded) ==
    /\ HasCol(out, r.out)
    /\ \A i \in 1..out.nrows :
          LET q == out.data[r.out][i]
          IN  /\ q.t = "num"
              /\ LeqNum(IntCell(0), q) /\ LeqNum(q, IntCell(100))
              /\ before.data[r.den][i] = IntCell(0) => q = IntCell(0)
    /\ LET checked == expect_column_values_to_be_between(out, <<>>, r.out, ZERO, HUNDRED)
       IN  checked.ret /\ ~checked.raised
    /\ \E i \in 1..Len(recorded) :
          /\ recorded[i].expectation = BetweenText(r.out, ZERO, HUNDRED)
          /\ recorded[i].success

\* C26 as claimed: when create_calculated_fields has produced the derived
\* columns, each rule whose sources are in every row numbers with
\* 0 <= numerator <= denominator has a derived column of values from 0 to
\* 100 (0 where the denominator is 0) on which the validator's range
\* expectation 0 to 100 passes.
C26_RatesPassRange ==
    CalcCall /\ ~call.faulted =>
        LET recorded == validate_covid_data(out).results
        IN  \A r \in RuleSet : WellFormed(before, r) => RateInRange(r, recorded)

\* C26 as amended: the same, for a Record Set that has at least one row
\* and numeric source columns.
C26_RatesPassRangeWithRows ==
    CalcCall /\ ~call.faulted /\ before.nrows > 0 =>
        LET recorded == validate_covid_data(out).results
        IN  \A r \in RuleSet :
                /\ WellFormed(before, r)
                /\ is_numeric_dtype(before.dtype[r.num])
                /\ is_numeric_dtype(before.dtype[r.den])
                => RateInRange(r, recorded)

\* 0 of 0 gave the rate 0 and 5 of 100 the rate 5, and the range
\* expectation passed
C26_Witness ==
    /\ CalcCall /\ ~call.faulted
    /\ \A r \in RuleSet : WellFormed(before, r)
    /\ before.data["positive_tests"] = <<IntCell(0), IntCell(5)>>
    /\ before.data["total_tests"] = <<IntCell(0), IntCell(100)>>
    /\ out.data["positivity_rate"] = <<IntCell(0), IntCell(5)>>

Failed(entries) == \E i \in 1..Len(entries) : ~entries[i].success

\* C27: the results are append-only: every operation leaves the entries
\* recorded before it in place, unchanged and in their order, so a
\* validate() that follows a failed entry returns false, whatever was
\* recorded after the failure.
C27_AppendOnly ==
    [][/\ Len(validation_results') >= Len(validation_results)
       /\ SubSeq(validation_results', 1, Len(validation_results)) = validation_results
       /\ Failed(validation_results) /\ vcall'.op = "validate" => ~vcall'.ret]_vars

\* validate() returned false after a failed entry that was followed by an
\* operation whose entries all passed
C27_Witness ==
    /\ vcall.op = "validate" /\ ~vcall.ret
    /\ nops = 2
    /\ ~validation_results[1].success
    /\ \A i \in 2..Len(validation_results) : validation_results[i].success
    /\ Len(validation_results) = 3

\* no value of the alias table is a key of it, and every value is trimmed
\* and lowercase already
ClosedTable ==
    \A k \in DOMAIN LOCATION_MAPPING :
        /\ LOCATION_MAPPING[k] \notin DOMAIN LOCATION_MAPPING
        /\ clean_string(LOCATION_MAPPING[k]) = LOCATION_MAPPING[k]

\* C29: location normalization is idempotent: the alias table maps no
\* value to one of its keys and its values are trimmed and lowercase;
\* clean_location maps every cell it has returned to itself; and
\* normalize_locations applied to the Record Set it returned (no fault
\* occurring) returns a Record Set equal to it.
C29_LocationsIdempotent ==
    /\ ClosedTable
    /\ LocationsCall =>
          /\ ~call.faulted
          /\ \A c \in Range(LOCATION_FIELDS) \cap Range(before.columns) :
                \A i \in 1..before.nrows :
                    clean_location(clean_location(before.data[c][i]))
                        = clean_location(before.data[c][i])
          /\ normalize_locations(out, LOCATION_FIELDS, 0).ret = out

\* an alias and a name that is no alias were normalized, and the result
\* differs from the input
C29_Witness ==
    /\ LocationsCall
    /\ before.columns = <<"region">>
    /\ before.data["region"] = <<Str(" NY "), Str("California")>>
    /\ out.data["region"] = <<Str("new york"), Str("california")>>

(***************************************************************************)
(* Properties of run_pipeline.                                             *)
(***************************************************************************)
Datasets =={"cases", "hospitals", "vaccinations"}

\* the dataset as the extractor returned it
ExtractedOf(d) ==
    CASE d = "cases" -> results.extract_csv
      [] d = "hospitals" -> results.extract_json
      [] d = "vaccinations" -> results.extract_api

TasksOf(d) == SelectSeq(tasks, LAMBDA t : t.dataset = d)

\* C14: when run_pipeline returns, every dataset that was extracted with
\* records has been validated and, later, loaded with the very records
\* that were validated, whether the validation returned true or false.
C14_LoadAfterValidation ==
    pc = Done =>
        \A d \in Datasets :
            ~empty(ExtractedOf(d)) =>
                \E i, j \in 1..Len(tasks) :
                    /\ i < j
                    /\ tasks[i].function = "validate_covid_data" /\ tasks[i].dataset = d
                    /\ tasks[j].function = "load_to_sqlite" /\ tasks[j].dataset = d
                    /\ tasks[j].df = tasks[i].df

\* a dataset whose validation returned false was loaded
C14_Witness ==
    /\ pc = Done
    /\ \E i, j \in 1..Len(tasks) :
          /\ i < j
          /\ tasks[i].function = "validate_covid_data" /\ ~tasks[i].result
          /\ tasks[j].function = "load_to_sqlite" /\ tasks[j].dataset = tasks[i].dataset

StageOrder ==
    <<"standardize_dates", "normalize_locations", "handle_missing_values",
      "create_calculated_fields", "validate_covid_data", "load_to_sqlite">>

\* C15: when run_pipeline returns, the tasks run on each dataset that was
\* extracted with records begin with date standardization, location
\* normalization, missing-value resolution, derived-metric calculation,
\* validation and load, in this order, the first on the extracted records
\* and each later one on what the stage before it returned.
C15_AllStagesInOrder ==
    pc = Done =>
        \A d \in Datasets :
            ~empty(ExtractedOf(d)) =>
                LET ts == TasksOf(d)
                IN  /\ Len(ts) >= Len(StageOrder)
                    /\ \A k \in 1..Len(StageOrder) : ts[k].function = StageOrder[k]
                    /\ ts[1].df = ExtractedOf(d)
                    /\ \A k \in 2..Len(StageOrder) :
                          ts[k].df = IF ts[k - 1].function \in Transforms
                                     THEN ts[k - 1].result ELSE ts[k - 1].df

\* what a configured date column may hold that is not a date
NotADate == {Null, Str(""), Str("soon")}

\* C25: in run_pipeline, whenever a task has run: if it is the
\* missing-value stage, every configured date column of its dataset is now
\* a text column without a null, in which exactly the cells that were
\* extracted null, empty or unparseable hold "Unknown"; if it is
\* validate_covid_data and the date column it detects is a configured one,
\* it records a passed not-null result for that column.
C25_UnknownDates ==
    tasks # <<>> =>
        LET t == Last(tasks)
        IN  /\ t.function = "handle_missing_values" =>
                  \A c \in Range(DATE_FIELDS) \cap Range(t.result.columns) :
                      /\ t.result.dtype[c] = "object"
                      /\ \A i \in 1..t.result.nrows :
                            /\ ~isna(t.result.data[c][i])
                            /\ (t.result.data[c][i] = Str("Unknown"))
                                   <=> (ExtractedOf(t.dataset).data[c][i] \in NotADate)
            /\ t.function = "validate_covid_data" =>
                  LET date_column == FirstColumn(SelectSeq(t.df.columns, IsDateName))
                      recorded == validate_covid_data(t.df).results
                  IN  date_column \in Range(DATE_FIELDS) =>
                          \E i \in 1..Len(recorded) :
                              recorded[i] =
                                  [expectation |->
                                       "Column '" \o date_column \o "' has no null values",
                                   success |-> TRUE, details |-> ""]

\* a dataset whose dates were a text that is no date and a null, or a
\* timestamp and a null, was validated with "Unknown" in their place
C25_Witness ==
    \E k \in 1..Len(tasks) :
        /\ tasks[k].function = "validate_covid_data"
        /\ \E c \in Range(DATE_FIELDS) \cap Range(tasks[k].df.columns) :
              /\ tasks[k].df.data[c][2] = Str("Unknown")
              /\ ExtractedOf(tasks[k].dataset).data[c][2] = Null
              /\ ExtractedOf(tasks[k].dataset).dtype[c] = "datetime64"

(***************************************************************************)
(* Properties of the scheduler.                                            *)
(***************************************************************************)
Left == at \in {"returned", "exit"}

\* C23: cancellation never interrupts work in flight: whenever start() has
\* been left, by returning or by the exit of the signal handler, no
\* pipeline run is in flight: every run that was begun has ended by itself.
C23_NoRunInterrupted == Left => phase \in {0, Ended}

\* the time the run after the one just ended is due
Due == last_run + timedelta(interval_minutes)

\* C24: a run that follows another begins at the time the earlier one
\* ended when that is at or after last_run + interval (no sleep), and else
\* at last_run + interval exactly, last_run being the time the earlier run
\* began.
C24_NextRunTime ==
    [][runs > 0 /\ runs' = runs + 1 =>
          /\ now' = now
          /\ IF finished >= Due THEN now = finished ELSE now = Due]_vars

\* a second run began at once, the first having taken longer than the
\* interval
C24_Witness ==
    /\ runs = 2 /\ at = "run_pipeline" /\ phase = 1
    /\ finished > timedelta(interval_minutes)
    /\ last_run = finished

=============================================================================
